---- MODULE Spec2Model ----
(***************************************************************************)
(* Ask2Slide: the ingestion and retrieval pipeline over three stores.      *)
(*                                                                         *)
(*   milvus  - the Milvus server: one record per collection name           *)
(*   docs    - MongoDB collection "documents"                              *)
(*   chunks  - MongoDB collection "document_chunks"                        *)
(*   bucket  - the MinIO bucket                                            *)
(*   uploads - the files of the upload directory                           *)
(*   task    - the Redis hash of a processing task                         *)
(*                                                                         *)
(* Handlers are translated from app/rag/convert_file.py (DocumentProcessor)*)
(* app/rag/colbert_service.py (ColBERTService) and app/db/milvus.py        *)
(* (MilvusManager).  A handler that runs sequentially is one action; the   *)
(* failures of the calls it makes are inputs of the action.                *)
(***************************************************************************)
EXTENDS Integers, Sequences, FiniteSets, TLC

\* ------------------------------------------------------------------ bounds

\* uuid.uuid4() is modelled as a counter; at most MaxIds ids are drawn.
MaxIds == 4
\* Pages of a paginated document.
MaxPages == 3
\* Characters of a flat text.
MaxTextLen == 3
\* Embedding points: a vector is abstracted to its dimension and a point
\* 0..MaxPoint on a line (the squared L2 distance of two points is (p-q)^2).
MaxPoint == 1
\* Concurrent callers of ensure_collection.
NumCallers == 2
\* The widest window of the splitter when it is driven on its own.
MaxWindow == 4
\* The inputs of one embedding call.
MaxBatch == 5
\* The characters of a knowledge base id when names are compared.
MaxKbLen == 2
\* The inputs of one embedding call when its batches are counted: two full
\* batches of texts and one more.
MaxInputs == 17
\* The full requests of one bulk_delete (one more, shorter, follows them).
MaxRequests == 2
\* The keys of the objects uploaded.
MaxKeys == 2
\* The longest list of search results sort_and_filter is given.
MaxItems == 3
\* The highest score of an item; the scores are 0..MaxScore.
MaxScore == 2

\* ------------------------------------------------------- program constants

\* ColBERTService.embedding_dim: the width of a mock embedding.
EmbeddingDim == 768
\* create_kb_collection(kb_id, dim=768) and create_collection(..., dim=768).
DefaultDim == 768
\* settings.chunk_size, settings.chunk_overlap
DefaultChunkSize == 1024
DefaultChunkOverlap == 200
\* _mock_search_results: min(top_k, 3)
MockResultCap == 3
\* batch_size of process_query and of process_image
TextBatchSize == 8
ImageBatchSize == 4
\* @retry(stop=stop_after_attempt(3),
\*        wait=wait_exponential(multiplier=1, min=4, max=10))
MaxAttempts == 3
WaitMultiplier == 1
WaitMin == 4
WaitMax == 10
\* bulk_delete: for i in range(0, len(unique_keys), 1000)
DeleteChunkSize == 1000

\* ------------------------------------------------------------ input sets

KbIds == {"kb1", "kb2"}
\* The hidden size of the loaded model is not fixed by the program: it is the
\* width of last_hidden_state of whatever model_path names.
HiddenSizes == {768, 1024}
Points == 0..MaxPoint
TopKs == {1, 2, 5}
\* Optional[int]: <<>> is None, <<n>> is n.
NoneVal == <<>>

VARIABLES
    milvus,     \* collection name -> collection (exists, schema, rows)
    docs,       \* set of document records
    chunks,     \* set of chunk records
    mongo,      \* what docs_collection / chunks_collection are
    provider,   \* FORCE_MOCK_MODE, model loaded?, hidden size
    nextId,     \* the next uuid
    last,       \* the last call and what it returned
    callers,    \* concurrent ensure_collection callers (SpecEnsure)
    bucket,     \* the keys of the objects in the MinIO bucket
    uploads,    \* the files of the upload directory: path and body
    task        \* the Redis hash task:{task_id}: status, processed, total

vars == <<milvus, docs, chunks, mongo, provider, nextId, last, callers, bucket, uploads, task>>

\* No task is running.
NoTask == [status |-> "", message |-> "", processed |-> 0, total |-> 0]

\* The module-level MongoDB handles and what "if docs_collection:" and
\* "if chunks_collection:" do with them:
\*   "none"    the connection failed at import: both are None, the test is false
\*   "truthy"  both are pymongo Collections and the test is true
\*   "raises"  both are pymongo Collections and the test raises
\*             NotImplementedError (Collection.__bool__ of pymongo >= 4; the
\*             repository pins no version)
MongoStates == {"none", "truthy", "raises"}

mongoUp == mongo = "truthy"

TruthTestRaises == mongo = "raises"

\* ------------------------------------------------------------ Milvus server

\* collection_name = f"colqwen_{kb_id}"
CollectionName(kb) == <<"colqwen_", kb>>

CollNames == {CollectionName(kb) : kb \in KbIds}

NoCollection == [exists |-> FALSE, pk |-> "", dim |-> 0, indexed |-> FALSE, rows |-> <<>>]

\* A vector: its dimension and its point.
Vec(d, p) == [dim |-> d, pt |-> p]

\* utility.has_collection(name)
HasCollection(m, name) == m[name].exists

\* pymilvus Collection(name, schema): attaches to an existing collection when
\* the schema agrees with the server's (raises otherwise) and creates the
\* collection when there is none.  schema = <<pk, dim>>.
\* Result: [ok, m].
CollectionWithSchema(m, name, pk, dim) ==
    IF m[name].exists
    THEN [ok |-> (m[name].pk = pk /\ m[name].dim = dim), m |-> m]
    ELSE [ok |-> TRUE,
          m  |-> [m EXCEPT ![name] =
                    [exists |-> TRUE, pk |-> pk, dim |-> dim,
                     indexed |-> FALSE, rows |-> <<>>]]]

\* pymilvus Collection(name) without a schema: raises when there is none.
CollectionHandle(m, name) == m[name].exists

\* collection.create_index("embedding", params): idempotent on the server.
CreateIndex(m, name) == [m EXCEPT ![name].indexed = TRUE]

\* collection.load(): raises when the collection has no index.
LoadOk(m, name) == m[name].exists /\ m[name].indexed

\* The server's check of an insert request: the columns have one length and
\* every vector has the collection's dimension.
InsertAccepted(c, ids, docIds, vecs) ==
    /\ c.exists
    /\ Len(ids) = Len(docIds)
    /\ Len(ids) = Len(vecs)
    /\ \A i \in 1..Len(vecs) : vecs[i].dim = c.dim

\* collection.insert(entities): all rows or none.
InsertRows(m, name, ids, docIds, vecs) ==
    [m EXCEPT ![name].rows =
        @ \o [i \in 1..Len(ids) |-> [id |-> ids[i], doc_id |-> docIds[i], vec |-> vecs[i]]]]

\* ------------------------------------------------------- Embedding Provider

\* ColBERTService._is_model_loaded
IsModelLoaded(p) == IF p.forceMock THEN FALSE ELSE p.loaded

\* The point a real model gives a content (deterministic).
RealPoint(content) == content % (MaxPoint + 1)

\* One embedding of process_query / process_image: the model's vector when
\* the model is loaded and inference succeeds, _generate_mock_embedding()
\* (random, EmbeddingDim wide) otherwise.  rnd is the random draw.
EmbedOne(p, content, inferenceFails, rnd) ==
    IF IsModelLoaded(p) /\ ~inferenceFails
    THEN Vec(p.hidden, RealPoint(content))
    ELSE Vec(EmbeddingDim, rnd)

\* ----------------------------------------------------- create_kb_collection

\* ColBERTService.create_kb_collection(kb_id, dim): every exception is caught
\* and logged; the caller gets None either way.  down: the Milvus calls raise.
CreateKbCollection(m, kb, dim, down) ==
    LET name == CollectionName(kb) IN
    IF down THEN m
    ELSE IF ~HasCollection(m, name)
         THEN CreateIndex(CollectionWithSchema(m, name, "chunk_id", dim).m, name)
         ELSE m

\* ------------------------------------------------------------ the last call

NoCall ==
    [op |-> "none", kb |-> "", doc |-> 0, n |-> 0, outcome |-> "none",
     faults |-> {}, log |-> <<>>, topk |-> 0, hits |-> <<>>, res |-> <<>>,
     path |-> "", args |-> <<>>, before |-> <<>>, waits |-> <<>>]

\* An ingest call: its path ("image", "pdf", "flat"), the pages or
\* characters of the file, the document id drawn, how the call ended ("ok":
\* it returned the id, "error": it raised, "hang": it never returned), the
\* failures that occurred and one log entry per chunk the call tried.
IngestCall(op, kb, path, n, doc, outcome, faults, log) ==
    [NoCall EXCEPT !.op = op, !.kb = kb, !.path = path, !.n = n, !.doc = doc,
                   !.outcome = outcome, !.faults = faults, !.log = log]

\* One chunk of an ingest: its ordinal, the failure injected on it, its
\* chunk id (0: none was drawn), the vector embedded for it, whether that
\* vector is a mock one, and whether the row / the record was written.
ChunkLog(ord, fault, cid, vec, mock, indexed, persisted) ==
    [ord |-> ord, fault |-> fault, cid |-> cid, vec |-> vec, mock |-> mock,
     indexed |-> indexed, persisted |-> persisted]

\* ------------------------------------------- DocumentProcessor.process_image

\* The failures of F that occur: a failure injected on a call that is never
\* made changes nothing, so the inputs are restricted to the failures hit.
\*   inferTried  the model is loaded (a mock embedding involves no inference)
\*   handleOk    Collection(name) succeeded, so collection.insert is called
\*   insertOk    the row was inserted, so the record insert is called
ChunkFaultsHit(F, inferTried, handleOk, insertOk) ==
    (IF inferTried THEN F \cap {"infer"} ELSE {})
    \cup (F \cap {"down"})
    \cup (IF handleOk THEN F \cap {"insert"} ELSE {})
    \cup (IF insertOk /\ mongoUp THEN F \cap {"chunk"} ELSE {})

DocFaultHit(F) == IF mongoUp THEN F \cap {"doc"} ELSE {}

\* What process_image lets escape: Image.open and pil_image.save run outside
\* any try, and so does the truth test of docs_collection that follows them
\* ("truth").
ProcessImageRaises(F) ==
    IF F \cap {"open", "save"} # {} THEN F \cap {"open", "save"}
    ELSE IF TruthTestRaises THEN {"truth"} ELSE {}

\* process_image(image: bytes, filename, kb_id).  F: the calls that fail:
\*   "open"   Image.open raises (not an image)
\*   "save"   pil_image.save raises
\*   "doc"    docs_collection.insert_one raises
\*   "infer"  model inference raises
\*   "down"   the Milvus calls raise
\*   "insert" collection.insert raises
\*   "chunk"  chunks_collection.insert_one raises
ProcessImage(kb, F, content, rnd) ==
    LET docId == nextId
        name  == CollectionName(kb)
        vec   == EmbedOne(provider, content, "infer" \in F, rnd)
        isMock == ~(IsModelLoaded(provider) /\ "infer" \notin F)
        m1    == CreateKbCollection(milvus, kb, DefaultDim, "down" \in F)
        handleOk == "down" \notin F /\ CollectionHandle(m1, name)
        cid   == IF handleOk THEN nextId + 1 ELSE 0
        insertOk == /\ handleOk
                    /\ "insert" \notin F
                    /\ InsertAccepted(m1[name], <<cid>>, <<docId>>, <<vec>>)
        persistOk == insertOk /\ mongoUp /\ "chunk" \notin F
        raised == ProcessImageRaises(F)
        hit   == DocFaultHit(F)
                 \cup ChunkFaultsHit(F, IsModelLoaded(provider), handleOk, insertOk)
    IN
    /\ nextId + 1 <= MaxIds
    /\ IF raised # {}
       THEN /\ F = raised \ {"truth"}
            /\ nextId' = nextId + 1
            /\ last' = IngestCall("process_image", kb, "image", 1, docId, "error",
                                  raised, <<>>)
            /\ UNCHANGED <<milvus, docs, chunks>>
       ELSE /\ F = hit
            /\ docs' = IF mongoUp /\ "doc" \notin F
                       THEN docs \cup {[id |-> docId, kb |-> kb]}
                       ELSE docs
            /\ milvus' = IF insertOk
                         THEN InsertRows(m1, name, <<cid>>, <<docId>>, <<vec>>)
                         ELSE m1
            /\ chunks' = IF persistOk
                         THEN chunks \cup {[id |-> cid, doc_id |-> docId, kb |-> kb,
                                            type |-> "image", ord |-> 0]}
                         ELSE chunks
            /\ nextId' = IF handleOk THEN nextId + 2 ELSE nextId + 1
            /\ last' = IngestCall("process_image", kb, "image", 1, docId, "ok", F,
                           <<ChunkLog(0, hit \ {"doc"}, cid, vec, isMock, insertOk, persistOk)>>)
    /\ UNCHANGED <<mongo, provider, callers, bucket, uploads, task>>

\* -------------------------------------------- DocumentProcessor._split_text

Min(a, b) == IF a < b THEN a ELSE b

\* x or default (Python truthiness of an Optional[int]: None and 0 are falsy)
OrDefault(x, d) == IF x = NoneVal \/ x[1] = 0 THEN d ELSE x[1]

\* The loop of _split_text never ends when start does not advance.
SplitDiverges(text, size, overlap) == text # <<>> /\ size - overlap <= 0

\* A loop that advances by the window and forgets the overlap.
RECURSIVE SplitFrom_StepsBySize(_, _, _, _)
SplitFrom_StepsBySize(text, start, size, overlap) ==
    IF start >= Len(text) THEN <<>>
    ELSE <<SubSeq(text, start + 1, Min(start + size, Len(text)))>>
         \o SplitFrom_StepsBySize(text, start + size, size, overlap)

\* A loop that stops as soon as a window reaches the end of the text.
RECURSIVE SplitFrom_StopsAtEnd(_, _, _, _)
SplitFrom_StopsAtEnd(text, start, size, overlap) ==
    IF start >= Len(text) THEN <<>>
    ELSE <<SubSeq(text, start + 1, Min(start + size, Len(text)))>>
         \o (IF start + size >= Len(text) THEN <<>>
             ELSE SplitFrom_StopsAtEnd(text, start + (size - overlap), size, overlap))

\* while start < text_len: end = min(start + chunk_size, text_len);
\* chunks.append(text[start:end]); start += chunk_size - chunk_overlap
RECURSIVE SplitFrom(_, _, _, _)
SplitFrom(text, start, size, overlap) ==
    IF start >= Len(text) THEN <<>>
    ELSE <<SubSeq(text, start + 1, Min(start + size, Len(text)))>>
         \o SplitFrom(text, start + (size - overlap), size, overlap)

\* _split_text(text, chunk_size, chunk_overlap), for a loop that ends.
SplitText(text, size, overlap) ==
    IF text = <<>> THEN <<>> ELSE SplitFrom(text, 0, size, overlap)

\* A text of length L: its characters are told apart by their position.
TextOf(L) == [i \in 1..L |-> i]

\* What the model sees of a chunk.
ChunkContent(chunk) == chunk[1]

\* ----------------------------------------- DocumentProcessor._process_chunks

\* _process_chunks(chunks, doc_id, kb_id).  F: the calls that fail ("infer",
\* "down", "insert" as in process_image); mf: the chunk indexes whose
\* chunks_collection.insert_one raises; rnd: the random draws.
\* Result: the stores, the uuid counter, the log and the failures hit.
ProcessChunks(m, ch, nid, cs, docId, kb, F, mf, rnd) ==
    LET n      == Len(cs)
        name   == CollectionName(kb)
        isMock == ~(IsModelLoaded(provider) /\ "infer" \notin F)
        vecs   == [i \in 1..n |->
                     EmbedOne(provider, ChunkContent(cs[i]), "infer" \in F, rnd[i])]
        m1     == CreateKbCollection(m, kb, DefaultDim, "down" \in F)
        handleOk == "down" \notin F /\ CollectionHandle(m1, name)
        ids    == [i \in 1..n |-> nid + i - 1]
        docIds == [i \in 1..n |-> docId]
        stored(i) == mongoUp /\ i \notin mf
        insertOk == "insert" \notin F /\ InsertAccepted(m1[name], ids, docIds, vecs)
        flt(i) == IF i \in mf THEN {"chunk"} ELSE {}
        hit    == ChunkFaultsHit(F, IsModelLoaded(provider), handleOk, FALSE)
    IN
    IF n = 0 THEN [m |-> m, ch |-> ch, nid |-> nid, log |-> <<>>, hit |-> {}, mfHit |-> {}]
    ELSE IF ~handleOk
    THEN [m |-> m1, ch |-> ch, nid |-> nid,
          log |-> [i \in 1..n |-> ChunkLog(i - 1, {}, 0, vecs[i], isMock, FALSE, FALSE)],
          hit |-> hit, mfHit |-> {}]
    ELSE IF TruthTestRaises
    THEN \* the truth test of chunks_collection raises for the first chunk,
         \* after its uuid is drawn: the except around the loop and the
         \* insert ends the call
         [m |-> m1, ch |-> ch, nid |-> nid + 1,
          log |-> [i \in 1..n |-> ChunkLog(i - 1, {}, 0, vecs[i], isMock, FALSE, FALSE)],
          hit |-> hit, mfHit |-> {}]
    ELSE [m   |-> IF insertOk THEN InsertRows(m1, name, ids, docIds, vecs) ELSE m1,
          ch  |-> ch \cup {[id |-> ids[i], doc_id |-> docId, kb |-> kb,
                            type |-> "text", ord |-> i - 1] : i \in {j \in 1..n : stored(j)}},
          nid |-> nid + n,
          log |-> [i \in 1..n |->
                     ChunkLog(i - 1, flt(i), ids[i], vecs[i], isMock, insertOk, stored(i))],
          hit |-> hit,
          mfHit |-> IF mongoUp THEN mf \cap (1..n) ELSE {}]

\* ------------------------------------ DocumentProcessor._process_pdf_as_images

\* A page loop that numbers the pages from 0, as enumerate() counts them.
PageNumber_ZeroBased(i) == i

\* for i, image in enumerate(pdf_images): page_num = i + 1
PageNumber(i) == i + 1

\* One iteration of the page loop (the inner try): the k-th page with
\* failures F.
PdfPage(st, k, docId, kb, F, rnd) ==
    LET name   == CollectionName(kb)
        pageNum == PageNumber(k - 1)
        vec    == EmbedOne(provider, pageNum, "infer" \in F, rnd)
        isMock == ~(IsModelLoaded(provider) /\ "infer" \notin F)
        m1     == CreateKbCollection(st.m, kb, DefaultDim, "down" \in F)
        handleOk == "down" \notin F /\ CollectionHandle(m1, name)
        cid    == IF handleOk THEN st.nid ELSE 0
        insertOk == /\ handleOk
                    /\ "insert" \notin F
                    /\ InsertAccepted(m1[name], <<cid>>, <<docId>>, <<vec>>)
        \* the record is written when the truth test of chunks_collection is
        \* true and insert_one returns; what either raises the page's except
        \* catches
        persistOk == insertOk /\ mongoUp /\ "chunk" \notin F
        hit    == ChunkFaultsHit(F, IsModelLoaded(provider), handleOk, insertOk)
    IN
    [m   |-> IF insertOk THEN InsertRows(m1, name, <<cid>>, <<docId>>, <<vec>>) ELSE m1,
     ch  |-> IF persistOk
             THEN st.ch \cup {[id |-> cid, doc_id |-> docId, kb |-> kb,
                               type |-> "pdf_page", ord |-> pageNum]}
             ELSE st.ch,
     nid |-> IF handleOk THEN st.nid + 1 ELSE st.nid,
     log |-> Append(st.log, ChunkLog(pageNum, hit, cid, vec, isMock, insertOk, persistOk))]

\* The page loop: image.save raising ("save") is outside the inner try, so
\* the outer except ends the loop there.
RECURSIVE PdfPages(_, _, _, _, _, _, _)
PdfPages(st, k, n, docId, kb, pf, rnd) ==
    IF k > n THEN st
    ELSE IF "save" \in pf[k]
    THEN [st EXCEPT !.log = Append(@, ChunkLog(PageNumber(k - 1), {"save"}, 0, Vec(0, 0),
                                               FALSE, FALSE, FALSE))]
    ELSE PdfPages(PdfPage(st, k, docId, kb, pf[k], rnd[k]), k + 1, n, docId, kb, pf, rnd)

\* _process_pdf_as_images(pdf_path, doc_id, kb_id) for a file of n pages;
\* convertFails: pdf2image.convert_from_path raises.
ProcessPdfAsImages(m, ch, nid, n, docId, kb, convertFails, pf, rnd) ==
    LET st0 == [m |-> m, ch |-> ch, nid |-> nid, log |-> <<>>] IN
    IF convertFails THEN st0 ELSE PdfPages(st0, 1, n, docId, kb, pf, rnd)

\* --------------------------------------------- DocumentProcessor.process_file

\* The formats _extract_text_and_metadata reads with a reader of their own
\* (PDF, DOCX, plain text), each told by one suffix.
ReaderFormats == {"pdf", "docx", "txt"}

\* The failures of a reader that its except clauses see: the reader raises
\* ("extract"), or the import of PyPDF2 / python-docx inside the try raises
\* ImportError ("import"; the text reader imports nothing).
ExtractFaultsHit(ext, F) ==
    IF ext \in {"pdf", "docx"} THEN F \cap {"extract", "import"}
    ELSE IF ext = "txt" THEN F \cap {"extract"}
    ELSE {}

\* "Text extracted from DOCX: {file_path.name}": a text of one window.
DocxPlaceholder == <<0>>

\* _extract_text_and_metadata(file_path, filename) for a file of suffix ext
\* whose content is the text body: the text and the kind of the metadata
\* returned.  A reader that raises gives "" and {"error": str(e)}; a missing
\* PyPDF2 gives "" and the page count, a missing python-docx a placeholder
\* text; an image and an unsupported file give "" and their metadata.
ExtractTextAndMetadata(ext, body, F) ==
    IF ext \notin ReaderFormats
    THEN [text |-> <<>>, meta |-> IF ext = "png" THEN "image" ELSE "basic"]
    ELSE IF "extract" \in F THEN [text |-> <<>>, meta |-> "error"]
    ELSE IF "import" \in ExtractFaultsHit(ext, F)
    THEN [text |-> IF ext = "docx" THEN DocxPlaceholder ELSE <<>>, meta |-> "pages"]
    ELSE [text |-> body, meta |-> ext]

\* A process_file whose readers let what they raise escape.
ProcessFileRaises_ReaderEscapes(ext, F) ==
    IF "write" \in F THEN {"write"}
    ELSE IF "extract" \in F THEN {"extract"}
    ELSE IF TruthTestRaises THEN {"truth"} ELSE {}

\* A process_file that catches and logs what the write of the upload raises.
ProcessFileRaises_WriteCaught(ext, F) ==
    IF ext = "png" /\ "extract" \in F THEN {"extract"}
    ELSE IF TruthTestRaises THEN {"truth"} ELSE {}

\* What process_file lets escape: the write of the upload and
\* _extract_text_and_metadata run outside any try, and the latter catches
\* what its PDF, DOCX and text readers raise but not what Image.open raises;
\* the truth test of docs_collection that follows them is outside any try
\* too ("truth").
ProcessFileRaises(ext, F) ==
    IF "write" \in F THEN {"write"}
    ELSE IF ext = "png" /\ "extract" \in F THEN {"extract"}
    ELSE IF TruthTestRaises THEN {"truth"} ELSE {}

\* process_file(file_content, filename, kb_id, chunk_size, chunk_overlap) for
\* a file whose suffix is ext and that holds n pages (a PDF) or n characters
\* (a text).  F: the calls that fail:
\*   "write"    writing the upload to disk raises
\*   "extract"  reading the file raises (caught for PDF and text files, not
\*              for Image.open)
\*   "doc"      docs_collection.insert_one raises
\*   "convert"  pdf2image.convert_from_path raises
\*   "infer", "down", "insert": as in process_image
\* pf: the failure of each page; mf: the chunks whose record insert raises.
ProcessFile(kb, ext, n, csize, coverlap, F, pf, mf, rnd) ==
    LET docId   == nextId
        extracted == ExtractTextAndMetadata(ext, TextOf(n), F)
        text    == extracted.text
        raised  == ProcessFileRaises(ext, F)
        size    == OrDefault(csize, DefaultChunkSize)
        overlap == OrDefault(coverlap, DefaultChunkOverlap)
        docs1   == IF mongoUp /\ "doc" \notin F
                   THEN docs \cup {[id |-> docId, kb |-> kb]}
                   ELSE docs
        hangs   == ext # "pdf" /\ SplitDiverges(text, size, overlap)
        pfAll   == [k \in 1..n |-> pf[k] \cup (F \cap {"down"})]
        rp      == ProcessPdfAsImages(milvus, chunks, nextId + 1, n, docId, kb,
                                      "convert" \in F, pfAll, rnd)
        rc      == ProcessChunks(milvus, chunks, nextId + 1,
                                 SplitText(text, size, overlap), docId, kb, F, mf, rnd)
        path    == IF ext = "pdf" THEN "pdf" ELSE "flat"
        early   == DocFaultHit(F) \cup ExtractFaultsHit(ext, F)
        \* the failures of the steps made once the upload is on disk
        later   == F \ {"write"}
        \* the call, with the suffix of the file, chunk_size and chunk_overlap
        \* as given and as passed to _split_text, and what the extraction
        \* returned
        call(outcome, faults, log) ==
            [IngestCall("process_file", kb, path, n, docId, outcome, faults, log)
                EXCEPT !.args = <<ext, csize, coverlap, size, overlap, extracted>>]
    IN
    /\ nextId + n <= MaxIds
    /\ IF raised # {}
       THEN /\ F = raised \ {"truth"}
            /\ mf = {}
            /\ \A k \in DOMAIN pf : pf[k] = {}
            /\ nextId' = nextId + 1
            /\ last' = call("error", raised, <<>>)
            /\ UNCHANGED <<milvus, docs, chunks>>
       ELSE IF hangs
       THEN /\ later = early
            /\ mf = {}
            /\ nextId' = nextId + 1
            /\ docs' = docs1
            /\ last' = call("hang", F, <<>>)
            /\ UNCHANGED <<milvus, chunks>>
       ELSE IF ext = "pdf"
       THEN /\ later = early \cup (F \cap {"convert"})
                       \cup (IF n > 0 /\ "convert" \notin F THEN F \cap {"down"} ELSE {})
            /\ \A k \in 1..Len(rp.log) : pfAll[k] = rp.log[k].fault
            /\ \A k \in (Len(rp.log) + 1)..n : pf[k] = {}
            /\ docs' = docs1
            /\ milvus' = rp.m
            /\ chunks' = rp.ch
            /\ nextId' = rp.nid
            /\ last' = call("ok", F, rp.log)
       ELSE /\ later = early \cup rc.hit
            /\ mf = rc.mfHit
            /\ docs' = docs1
            /\ milvus' = rc.m
            /\ chunks' = rc.ch
            /\ nextId' = rc.nid
            /\ last' = call("ok", F, rc.log)
    /\ UNCHANGED <<mongo, provider, callers, bucket, uploads, task>>

\* ------------------------------------------------------------- the inputs

\* One failure is injected per call: a call-wide one, or one on a single
\* page or chunk.
Singletons(S) == {{}} \cup {{x} : x \in S}
PdfCallFaults == Singletons({"write", "convert", "doc", "down"})
PageFaults == Singletons({"infer", "insert", "chunk", "save"})
PageFaultSeqs(n) ==
    {[k \in 1..n |-> {}]}
    \cup {[k \in 1..n |-> IF k = j THEN f ELSE {}] : j \in 1..n, f \in PageFaults \ {{}}}
TextCallFaults == Singletons({"write", "extract", "doc", "infer", "down", "insert"})
ChunkFailSets(n) == Singletons(1..n)
ImageCallFaults ==
    Singletons({"open", "save", "doc", "infer", "down", "insert", "chunk"})
ChunkSizes == {NoneVal, <<2>>}
ChunkOverlaps == {NoneVal, <<0>>, <<1>>}

\* Ingestion reads a vector's dimension and never its values: the ingestion
\* specification draws every mock embedding at point 0.
IngestDraws == {0}

\* An input the call never reads is fixed: a file that is not parsed has no
\* pages or characters, an empty text is split with the defaults.  The
\* knowledge bases are interchangeable, so the first document goes to kb1.
KbChoice(kb) == nextId > 1 \/ kb = "kb1"

IngestPdf ==
    \E kb \in KbIds, n \in 0..MaxPages :
      /\ KbChoice(kb)
      /\ nextId + n <= MaxIds
      /\ \E F \in PdfCallFaults :
           /\ F \cap {"write", "convert"} # {} => n = 0
           /\ \E pf \in PageFaultSeqs(n) :
                /\ F # {} => pf = [k \in 1..n |-> {}]
                /\ ProcessFile(kb, "pdf", n, NoneVal, NoneVal, F, pf, {}, [k \in 1..n |-> 0])

IngestText(faults) ==
    \E kb \in KbIds, n \in 0..MaxTextLen :
      /\ KbChoice(kb)
      /\ nextId + n <= MaxIds
      /\ \E F \in faults, cs \in ChunkSizes, co \in ChunkOverlaps :
           /\ F \cap {"write", "extract"} # {} => n = 0
           /\ n = 0 => cs = NoneVal /\ co = NoneVal
           /\ \E mf \in ChunkFailSets(n) :
                /\ F # {} => mf = {}
                /\ ProcessFile(kb, "txt", n, cs, co, F, <<>>, mf, [k \in 1..n |-> 0])

IngestOther ==
    \E kb \in KbIds, ext \in {"png", "bin"}, F \in TextCallFaults :
        /\ KbChoice(kb)
        /\ ProcessFile(kb, ext, 0, NoneVal, NoneVal, F, <<>>, {}, <<>>)

IngestImage(faults, draws) ==
    \E kb \in KbIds, F \in faults, c \in draws, rnd \in draws :
        /\ KbChoice(kb)
        /\ ProcessImage(kb, F, c, rnd)

\* ------------------------------------------------------------------- Init

\* FORCE_MOCK_MODE (True as shipped), whether __init__ loaded the model, and
\* the model's hidden size.
ProviderConfigs ==
    {[forceMock |-> TRUE,  loaded |-> TRUE,  hidden |-> 768],
     [forceMock |-> FALSE, loaded |-> TRUE,  hidden |-> 768],
     [forceMock |-> FALSE, loaded |-> TRUE,  hidden |-> 1024]}

\* A caller of create_kb_collection / create_collection: where it is in the
\* routine, the routine ("kb": ColBERTService.create_kb_collection, "mgr":
\* MilvusManager.create_collection), what has_collection told it and what
\* the call gave its caller.
NoCallers ==
    [c \in 1..NumCallers |->
        [pc |-> "idle", kb |-> "", kind |-> "", seen |-> FALSE, result |-> "none"]]

Init ==
    /\ milvus = [name \in CollNames |-> NoCollection]
    /\ docs = {}
    /\ chunks = {}
    /\ mongo \in MongoStates
    /\ provider \in ProviderConfigs
    /\ nextId = 1
    /\ last = NoCall
    /\ callers = NoCallers
    /\ bucket = {}
    /\ uploads = {}
    /\ task = NoTask

\* The Ingestion Coordinator.
Next ==
    \/ IngestPdf
    \/ IngestText(TextCallFaults)
    \/ IngestOther
    \/ IngestImage(ImageCallFaults, IngestDraws)

Spec == Init /\ [][Next]_vars

\* ------------------------------------------------------ ColBERTService.search

\* The L2 distance Milvus reports for two vectors of one dimension.
Distance(v, w) == (v.pt - w.pt) * (v.pt - w.pt)

\* score = 1.0 / (1.0 + distance), kept as the fraction <<1, 1 + distance>>.
Score(d) == <<1, 1 + d>>

\* a <= b for two fractions with positive denominators.
ScoreLeq(a, b) == a[1] * b[2] <= b[1] * a[2]

\* The answers that list k rows of R, nearest to q first; rows at the same
\* distance come in any order.
RECURSIVE NearestFirst(_, _, _, _)
NearestFirst(c, q, R, k) ==
    IF k = 0 \/ R = {} THEN {<<>>}
    ELSE LET d(r) == Distance(c.rows[r].vec, q)
             near == {r \in R : \A r2 \in R : d(r) <= d(r2)}
         IN
         UNION {{<<r>> \o t : t \in NearestFirst(c, q, R \ {r}, k - 1)} : r \in near}

\* collection.search(data=[q], limit=top_k) on collection c: the
\* min(top_k, rows) nearest rows, nearest first.  The set of the answers the
\* server may give, each a sequence of row positions.
IndexSearch(c, q, topk) == NearestFirst(c, q, 1..Len(c.rows), topk)

\* The hit objects of an answer: hit.id, hit.entity.get("doc_id"), hit.distance.
HitsOf(c, q, s) ==
    [i \in 1..Len(s) |-> [id |-> c.rows[s[i]].id, doc_id |-> c.rows[s[i]].doc_id,
                          dist |-> Distance(c.rows[s[i]].vec, q)]]

\* One entry of the result list.  kind: "full" (text and metadata of the
\* chunk record), "placeholder" (built in the except branch from the ids
\* alone), "mock" (fabricated by _mock_search_results).
ResultEntry(cid, doc, score, kind) ==
    [cid |-> cid, doc |-> doc, score |-> score, kind |-> kind]

\* range(min(top_k, 3))
MockCount(topk) == Min(topk, MockResultCap)

\* random.uniform(0.5, 0.9): two of the values it draws.
MockScores == {<<5, 10>>, <<9, 10>>}

\* _mock_search_results(query, top_k): min(top_k, 3) entries with fresh
\* uuid4 identifiers (the negative numbers: no store holds them) and the
\* random scores ms.
MockSearchResults(topk, ms) ==
    [i \in 1..MockCount(topk) |-> ResultEntry(0 - i, 0 - i, ms[i], "mock")]

\* The loop over the hits: the entry appended for one hit, as a sequence of
\* zero or one entries.  raises: find_one raises for this hit.
EntryFor(hit, raises) ==
    IF TruthTestRaises \/ (mongoUp /\ raises)
    THEN <<ResultEntry(hit.id, hit.doc_id, Score(hit.dist), "placeholder")>>
    ELSE IF mongoUp /\ \E c \in chunks : c.id = hit.id
    THEN <<ResultEntry(hit.id, hit.doc_id, Score(hit.dist), "full")>>
    ELSE <<>>

RECURSIVE EntriesFor(_, _, _)
EntriesFor(hits, i, lf) ==
    IF i > Len(hits) THEN <<>>
    ELSE EntryFor(hits[i], i \in lf) \o EntriesFor(hits, i + 1, lf)

\* A search call: how it was answered ("missing": no collection, "raised":
\* the except branch, "index": from the collection), the hits the index
\* returned and the result list.
SearchCall(kb, query, topk, path, faults, hits, res) ==
    [NoCall EXCEPT !.op = "search", !.kb = kb, !.args = <<query>>,
                   !.topk = topk, !.path = path,
                   !.outcome = "ok", !.faults = faults, !.hits = hits, !.res = res]

\* random.uniform draws for the scores of the mock results
MockScoreSeqs(topk) == [1..MockCount(topk) -> MockScores]

\* The query embedding: process_query([query])[0].  The set of the vectors
\* the call may get (one for a loaded model, any mock draw otherwise).
QueryEmbeddings(query, inferenceFails) ==
    {EmbedOne(provider, query, inferenceFails, rnd) : rnd \in Points}

\* search(query, kb_id, top_k).  F: the calls that fail ("down": the Milvus
\* calls raise, "infer": model inference raises).  The set of the calls it may
\* make: one for each random draw (the mock embedding, the mock scores),
\* each answer s of the index and each set lf of hits whose find_one raises.
SearchOutcomes(kb, query, topk, F) ==
    LET name == CollectionName(kb)
        c    == milvus[name]
        mocks(path) ==
            {SearchCall(kb, query, topk, path, F, <<>>, MockSearchResults(topk, ms)) :
                ms \in MockScoreSeqs(topk)}
    IN
    IF "down" \in F
    THEN \* utility.has_collection raises: the outer except
         IF F = {"down"} /\ query = 0 THEN mocks("raised") ELSE {}
    ELSE IF ~HasCollection(milvus, name)
    THEN IF F = {} /\ query = 0 THEN mocks("missing") ELSE {}
    ELSE IF ~(/\ "infer" \in F => IsModelLoaded(provider)
              /\ (~IsModelLoaded(provider) \/ "infer" \in F) => query = 0)
    THEN {}
    ELSE UNION {
           IF ~LoadOk(milvus, name) \/ q.dim # c.dim
           THEN \* collection.load or collection.search raises
                mocks("raised")
           ELSE UNION {
                  {SearchCall(kb, query, topk, "index", F, HitsOf(c, q, s),
                              EntriesFor(HitsOf(c, q, s), 1, lf)) :
                      lf \in SUBSET (IF mongoUp THEN 1..Len(s) ELSE {})} :
                  s \in IndexSearch(c, q, topk)} :
           q \in QueryEmbeddings(query, "infer" \in F)}

Search(kb, query, topk, F) ==
    /\ last' \in SearchOutcomes(kb, query, topk, F)
    /\ UNCHANGED <<milvus, docs, chunks, mongo, provider, nextId, callers, bucket, uploads, task>>

SearchFaults == Singletons({"down", "infer"})

\* queries: the query texts, each told by the content the model sees of it.
QueryWith(queries) ==
    \E kb \in KbIds, query \in queries, topk \in TopKs, F \in SearchFaults :
        Search(kb, query, topk, F)

Query == QueryWith(Points)

\* The failures of an ingest that decide what a later query finds: a row
\* without a chunk record ("chunk") and a mock vector in place of the model's
\* ("infer").
QueryIngestFaults == Singletons({"chunk", "infer"})

\* The Retrieval Coordinator over a store filled by image ingestion.
NextQuery ==
    \/ IngestImage(QueryIngestFaults, Points)
    \/ Query

SpecQuery == Init /\ [][NextQuery]_vars

\* The failure of a text ingest that decides what a later query finds: the
\* bulk insert of the rows ("insert"); the chunk records that fail are drawn
\* by the ingest itself.
RoundTripFaults == Singletons({"insert"})

\* The texts queried: the content of any chunk of a text, and 0 for a text
\* that is no chunk's.
RoundTripQueries == 0..MaxTextLen

\* The Retrieval Coordinator over a store filled by text ingestion.
NextRoundTrip ==
    \/ IngestText(RoundTripFaults)
    \/ QueryWith(RoundTripQueries)

SpecRoundTrip == Init /\ [][NextRoundTrip]_vars

\* ------------------------------------------------------------ MilvusManager

\* A create_collection that replaces an existing collection whose dimension is
\* not the one asked for.
MgrCreateCollection_Recreates(m, name, dim, down) ==
    IF down THEN [ok |-> FALSE, m |-> m]
    ELSE IF HasCollection(m, name) /\ m[name].dim = dim THEN [ok |-> TRUE, m |-> m]
    ELSE LET r == CollectionWithSchema([m EXCEPT ![name] = NoCollection], name, "id", dim) IN
         [ok |-> r.ok, m |-> CreateIndex(r.m, name)]

\* create_collection(collection_name, dim): the existing collection, or a new
\* one with the primary key "id" and an index; None (ok = FALSE) when Milvus
\* cannot be reached or a call raises.  Result: [ok, m].
MgrCreateCollection(m, name, dim, down) ==
    IF down THEN [ok |-> FALSE, m |-> m]
    ELSE IF HasCollection(m, name) THEN [ok |-> TRUE, m |-> m]
    ELSE LET r == CollectionWithSchema(m, name, "id", dim) IN
         [ok |-> r.ok, m |-> CreateIndex(r.m, name)]

\* get_collection(collection_name): the loaded collection, None otherwise.
MgrGetCollection(m, name, down) ==
    ~down /\ HasCollection(m, name) /\ LoadOk(m, name)

\* [f"doc_{i}" for i in range(len(ids))]: the substitute document ids, the
\* negative numbers (no document has them).
DefaultDocIds(n) == [i \in 1..n |-> 0 - i]

\* The doc_id column insert_vectors sends: the caller's list when it is
\* given and as long as ids, the substitute ids otherwise.  <<>>: None or [].
DocIdColumn(ids, docIds) ==
    IF docIds # <<>> /\ Len(docIds) = Len(ids) THEN docIds ELSE DefaultDocIds(Len(ids))

\* insert_vectors(collection_name, ids, vectors, doc_ids).  Result: [ok, m].
MgrInsertVectors(m, name, ids, vecs, docIds, down) ==
    LET dim == IF vecs # <<>> THEN vecs[1].dim ELSE DefaultDim
        r   == IF MgrGetCollection(m, name, down)
               THEN [ok |-> TRUE, m |-> m]
               ELSE MgrCreateCollection(m, name, dim, down)
        col == DocIdColumn(ids, docIds)
    IN
    IF ~r.ok THEN [ok |-> FALSE, m |-> r.m]
    ELSE IF InsertAccepted(r.m[name], ids, col, vecs)
    THEN [ok |-> TRUE, m |-> InsertRows(r.m, name, ids, col, vecs)]
    ELSE [ok |-> FALSE, m |-> r.m]

\* A call of the manager: its arguments, the rows of the collection before
\* the call and what it returned.
MgrCall(op, kb, args, outcome, hits) ==
    [NoCall EXCEPT !.op = op, !.kb = kb, !.args = args, !.outcome = outcome,
                   !.before = milvus[CollectionName(kb)].rows, !.hits = hits]

\* The vectors a caller passes with the ids: the model's embedding of each
\* chunk, all of one dimension.
VecSeqs(ids, n) == {[i \in 1..n |-> Vec(d, RealPoint(ids[i]))] : d \in HiddenSizes}

\* The manager is driven on the collection of one knowledge base.
MgrKbIds == {"kb1"}

MgrCreate ==
    \E kb \in MgrKbIds, dim \in HiddenSizes, down \in BOOLEAN :
        LET r == MgrCreateCollection(milvus, CollectionName(kb), dim, down) IN
        /\ milvus' = r.m
        /\ last' = [MgrCall("create_collection", kb, <<dim>>,
                            IF r.ok THEN "collection" ELSE "none", <<>>)
                        EXCEPT !.faults = IF down THEN {"down"} ELSE {}]
        /\ UNCHANGED <<docs, chunks, mongo, provider, nextId, callers, bucket, uploads, task>>

\* The caller draws len(ids) fresh ids and passes nv vectors and nd doc_ids
\* (all of document 1); at most one of the two lists has another length than
\* ids.
MgrInsert ==
    \E kb \in MgrKbIds, n \in 1..2, nv \in 0..2, nd \in 0..2, down \in BOOLEAN :
      LET ids    == [i \in 1..2 |-> nextId + i - 1]
          docIds == [i \in 1..nd |-> 1]
      IN
      \E vecs \in VecSeqs(ids, nv) :
        LET r == MgrInsertVectors(milvus, CollectionName(kb), SubSeq(ids, 1, n),
                                  vecs, docIds, down)
        IN
        /\ nv = n \/ nd = n
        /\ down => (n = 1 /\ nv = 1 /\ nd = 1)
        /\ nextId + n - 1 <= MaxIds
        /\ nextId' = nextId + n
        /\ milvus' = r.m
        /\ last' = MgrCall("insert_vectors", kb,
                           [ids |-> SubSeq(ids, 1, n), docIds |-> docIds, vecs |-> vecs],
                           IF r.ok THEN "true" ELSE "false", <<>>)
        /\ UNCHANGED <<docs, chunks, mongo, provider, callers, bucket, uploads, task>>

\* search(collection_name, query_vectors, top_k) with one query vector: the
\* hits, [] when the collection is missing or a call raises.
MgrSearch ==
    \E kb \in MgrKbIds, d \in HiddenSizes, pt \in Points, topk \in TopKs, down \in BOOLEAN :
        LET name == CollectionName(kb)
            c    == milvus[name]
            q    == Vec(d, pt)
        IN
        /\ IF ~MgrGetCollection(milvus, name, down) \/ q.dim # c.dim
           THEN /\ pt = 0
                /\ last' = MgrCall("search", kb, <<topk>>, "ok", <<>>)
           ELSE \E s \in IndexSearch(c, q, topk) :
                  last' = MgrCall("search", kb, <<topk>>, "ok", HitsOf(c, q, s))
        /\ UNCHANGED <<milvus, docs, chunks, mongo, provider, nextId, callers, bucket, uploads, task>>

\* The manager reads neither the metadata store nor the embedding provider.
InitMilvus ==
    /\ Init
    /\ mongoUp
    /\ provider.forceMock

\* The Vector Index Manager on its own.
NextMilvus ==
    \/ MgrCreate
    \/ MgrInsert
    \/ MgrSearch

SpecMilvus == InitMilvus /\ [][NextMilvus]_vars

\* ------------------------------------------- concurrent ensure_collection

\* The primary key of the schema each routine declares.
PrimaryKey(kind) == IF kind = "kb" THEN "chunk_id" ELSE "id"

\* What the caller of create_kb_collection sees when a Milvus call raised:
\* except Exception logs the error and the method returns None as always.
\* (A mutant that lets the exception escape.)
EnsureOutcome_Reraise(raised) == IF raised THEN "error" ELSE "ok"

EnsureOutcome(raised) == "ok"

\* What the caller of MilvusManager.create_collection sees: the collection,
\* or None when a call raised.
MgrOutcome(raised) == IF raised THEN "none" ELSE "ok"

Outcome(kind, raised) ==
    IF kind = "kb" THEN EnsureOutcome(raised) ELSE MgrOutcome(raised)

Done(c, raised) ==
    [callers EXCEPT ![c].pc = "done", ![c].result = Outcome(callers[c].kind, raised)]

\* A caller enters the routine for kb_id.
EnsureCall(c) ==
    \E kb \in KbIds, kind \in {"kb", "mgr"} :
        /\ callers[c].pc = "idle"
        /\ callers' = [callers EXCEPT ![c].pc = "check", ![c].kb = kb, ![c].kind = kind]
        /\ UNCHANGED <<milvus, docs, chunks, mongo, provider, nextId, last, bucket, uploads, task>>

\* utility.has_collection(collection_name)
EnsureCheck(c) ==
    LET seen == HasCollection(milvus, CollectionName(callers[c].kb)) IN
    /\ callers[c].pc = "check"
    /\ callers' = IF ~seen THEN [callers EXCEPT ![c].pc = "create", ![c].seen = FALSE]
                  ELSE IF callers[c].kind = "kb"
                  THEN [callers EXCEPT ![c].pc = "load", ![c].seen = TRUE]
                  ELSE [Done(c, FALSE) EXCEPT ![c].seen = TRUE]
    /\ UNCHANGED <<milvus, docs, chunks, mongo, provider, nextId, last, bucket, uploads, task>>

\* collection = Collection(collection_name, schema)
EnsureCreate(c) ==
    LET r == CollectionWithSchema(milvus, CollectionName(callers[c].kb),
                                  PrimaryKey(callers[c].kind), DefaultDim)
    IN
    /\ callers[c].pc = "create"
    /\ milvus' = r.m
    /\ callers' = IF r.ok THEN [callers EXCEPT ![c].pc = "index"] ELSE Done(c, TRUE)
    /\ UNCHANGED <<docs, chunks, mongo, provider, nextId, last, bucket, uploads, task>>

\* collection.create_index("embedding", index_params)
EnsureIndex(c) ==
    /\ callers[c].pc = "index"
    /\ milvus' = CreateIndex(milvus, CollectionName(callers[c].kb))
    /\ callers' = Done(c, FALSE)
    /\ UNCHANGED <<docs, chunks, mongo, provider, nextId, last, bucket, uploads, task>>

\* Collection(collection_name).load(), the else branch of create_kb_collection
EnsureLoad(c) ==
    /\ callers[c].pc = "load"
    /\ callers' = Done(c, ~LoadOk(milvus, CollectionName(callers[c].kb)))
    /\ UNCHANGED <<milvus, docs, chunks, mongo, provider, nextId, last, bucket, uploads, task>>

\* The routines read neither the metadata store nor the embedding provider.
InitEnsure ==
    /\ Init
    /\ mongoUp
    /\ provider.forceMock

NextEnsure ==
    \E c \in 1..NumCallers :
        \/ EnsureCall(c)
        \/ EnsureCheck(c)
        \/ EnsureCreate(c)
        \/ EnsureIndex(c)
        \/ EnsureLoad(c)

SpecEnsure == InitEnsure /\ [][NextEnsure]_vars

\* ------------------------------------------------- _split_text on its own

\* The windows and overlaps _split_text is called with; an overlap may be
\* negative (the windows then leave gaps) or reach the window (the loop then
\* never ends).
Windows == 1..MaxWindow
Overlaps == (0 - 1)..MaxWindow
SplitLengths == 0..(2 * MaxTextLen)

SplitCall(L, W, O) ==
    LET text == TextOf(L)
        hangs == SplitDiverges(text, W, O)
    IN
    [NoCall EXCEPT !.op = "split_text", !.n = L, !.args = <<W, O>>,
                   !.outcome = IF hangs THEN "hang" ELSE "ok",
                   !.res = IF hangs THEN <<>> ELSE SplitText(text, W, O)]

Split ==
    \E L \in SplitLengths, W \in Windows, O \in Overlaps :
        /\ last' = SplitCall(L, W, O)
        /\ UNCHANGED <<milvus, docs, chunks, mongo, provider, nextId, callers, bucket, uploads, task>>

InitSplit ==
    /\ Init
    /\ mongoUp
    /\ provider.forceMock

NextSplit == Split

SpecSplit == InitSplit /\ [][NextSplit]_vars

\* ------------------------------------ process_query, process_image on their own

\* range(0, len(inputs), batch_size): the number of batches
NumBatches(n, batchSize) == (n + batchSize - 1) \div batchSize

\* A loop that hands the model every input in one call.
RECURSIVE BatchesFrom_OneCall(_, _, _)
BatchesFrom_OneCall(inputs, start, size) ==
    IF start >= Len(inputs) THEN <<>>
    ELSE <<SubSeq(inputs, start + 1, Len(inputs))>>

\* for i in range(0, len(inputs), batch_size): inputs[i : i + batch_size]
RECURSIVE BatchesFrom(_, _, _)
BatchesFrom(inputs, start, size) ==
    IF start >= Len(inputs) THEN <<>>
    ELSE <<SubSeq(inputs, start + 1, Min(start + size, Len(inputs)))>>
         \o BatchesFrom(inputs, start + size, size)

\* The calls of the model: none when the model is not used, the batches up
\* to the one whose inference raises otherwise.
ModelCalls(p, inputs, size, failBatch) ==
    LET batches == BatchesFrom(inputs, 0, size) IN
    IF ~IsModelLoaded(p) THEN <<>>
    ELSE IF failBatch = 0 THEN batches
    ELSE SubSeq(batches, 1, failBatch)

\* outputs.last_hidden_state.mean(dim=1).tolist(): one vector per input of
\* the batch, in the order of the batch.
EmbedBatch(p, batch) ==
    [i \in 1..Len(batch) |-> EmbedOne(p, batch[i], FALSE, 0)]

\* embeddings.extend(batch_embeddings), batch after batch
RECURSIVE ExtendAll(_, _, _)
ExtendAll(p, batches, k) ==
    IF k > Len(batches) THEN <<>>
    ELSE EmbedBatch(p, batches[k]) \o ExtendAll(p, batches, k + 1)

\* process_query(queries) / process_image(images) for the provider p and
\* the batch size of the method.  failBatch: the batch whose inference raises
\* (0: none); the except branch then drops what the earlier batches gave and
\* returns a mock embedding for every input, as does a provider whose model
\* is not loaded.  rnds: the random draws.
ProcessBatch(p, inputs, size, failBatch, rnds) ==
    IF IsModelLoaded(p) /\ failBatch = 0
    THEN ExtendAll(p, BatchesFrom(inputs, 0, size), 1)
    ELSE [i \in 1..Len(inputs) |-> EmbedOne(p, inputs[i], TRUE, rnds[i])]

BatchSizeOf(op) == IF op = "process_query" THEN TextBatchSize ELSE ImageBatchSize

\* A call of the provider: its inputs, the batches it handed the model and
\* the vectors it returned.
EmbedCall(op, inputs, failBatch, calls, res) ==
    [NoCall EXCEPT !.op = op, !.n = Len(inputs), !.args = inputs,
                   !.faults = IF failBatch = 0 THEN {} ELSE {"infer"},
                   !.outcome = "ok", !.log = calls, !.res = res]

\* An input the call does not read (the model is not used) is fixed.
Embed(op) ==
    \E n \in 0..MaxBatch :
      \E inputs \in [1..n -> Points], rnds \in [1..n -> Points],
         failBatch \in 0..NumBatches(n, BatchSizeOf(op)) :
        LET real == IsModelLoaded(provider) /\ failBatch = 0 IN
        /\ failBatch # 0 => IsModelLoaded(provider)
        /\ real => rnds = [i \in 1..n |-> 0]
        /\ ~real => inputs = [i \in 1..n |-> 0]
        /\ last' = EmbedCall(op, inputs, failBatch,
                             ModelCalls(provider, inputs, BatchSizeOf(op), failBatch),
                             ProcessBatch(provider, inputs, BatchSizeOf(op), failBatch, rnds))
        /\ UNCHANGED <<milvus, docs, chunks, mongo, provider, nextId, callers, bucket, uploads, task>>

EmbedText == Embed("process_query")

EmbedImage == Embed("process_image")

\* The provider states: mock mode forced, the model loaded (of either hidden
\* size), the model not loaded.
InitEmbed ==
    /\ milvus = [name \in CollNames |-> NoCollection]
    /\ docs = {}
    /\ chunks = {}
    /\ mongo = "truthy"
    /\ provider \in ProviderConfigs
                    \cup {[forceMock |-> FALSE, loaded |-> FALSE, hidden |-> 768]}
    /\ nextId = 1
    /\ last = NoCall
    /\ callers = NoCallers
    /\ bucket = {}
    /\ uploads = {}
    /\ task = NoTask

NextEmbed ==
    \/ EmbedText
    \/ EmbedImage

SpecEmbed == InitEmbed /\ [][NextEmbed]_vars

\* ------------------------------------------------ get_embeddings_from_httpx

\* What one attempt may raise: response.raise_for_status() (HTTPStatusError,
\* re-raised as Exception), response.json() (JSONDecodeError, re-raised as
\* Exception), and what client.post raises itself (connection refused,
\* timeout), which no except clause of the function names.
AttemptFailures == {"status", "json", "connect"}

Endpoints == {"embed_text", "embed_image"}

\* /embed_text calls colbert.process_query, /embed_image colbert.process_image
EndpointBatchSize(endpoint) ==
    IF endpoint = "embed_text" THEN TextBatchSize ELSE ImageBatchSize

RECURSIVE Pow2(_)
Pow2(k) == IF k = 0 THEN 1 ELSE 2 * Pow2(k - 1)

\* wait_exponential after the k-th failed attempt:
\* max(min, min(multiplier * 2 ** (k - 1), max))
Backoff(k) ==
    LET exp == WaitMultiplier * Pow2(k - 1)
        capped == IF exp < WaitMax THEN exp ELSE WaitMax
    IN IF capped > WaitMin THEN capped ELSE WaitMin

\* The call in flight: outcome "trying" (an attempt is due), "waiting" (the
\* backoff sleep), and at its end "ok" (the array of the embeddings is
\* returned) or "error" (tenacity raises RetryError to the caller).
HttpCall(endpoint, inputs, outcome, failures, waits, res) ==
    [NoCall EXCEPT !.op = "get_embeddings_from_httpx", !.path = endpoint,
                   !.n = Len(inputs), !.args = inputs, !.outcome = outcome,
                   !.log = failures, !.waits = waits, !.res = res]

HttpInFlight ==
    last.op = "get_embeddings_from_httpx" /\ last.outcome \in {"trying", "waiting"}

\* get_embeddings_from_httpx(data, endpoint) is called.
HttpStart ==
    /\ ~HttpInFlight
    /\ \E endpoint \in Endpoints, n \in 0..MaxBatch :
         last' = HttpCall(endpoint, [i \in 1..n |-> 0], "trying", <<>>, <<>>, <<>>)
    /\ UNCHANGED <<milvus, docs, chunks, mongo, provider, nextId, callers, bucket, uploads, task>>

\* One attempt: the server answers with its embeddings, or the attempt
\* raises; the retry decorator then sleeps and tries again, or gives up
\* after the last attempt.
HttpAttempt ==
    /\ HttpInFlight
    /\ last.outcome = "trying"
    /\ \/ last' = [last EXCEPT !.outcome = "ok",
                                !.res = ProcessBatch(provider, last.args, EndpointBatchSize(last.path),
                                                     0, last.args)]
       \/ \E f \in AttemptFailures :
            LET failures == Append(last.log, f) IN
            IF Len(failures) >= MaxAttempts
            THEN last' = [last EXCEPT !.outcome = "error", !.log = failures]
            ELSE last' = [last EXCEPT !.outcome = "waiting", !.log = failures,
                                      !.waits = Append(last.waits, Backoff(Len(failures)))]
    /\ UNCHANGED <<milvus, docs, chunks, mongo, provider, nextId, callers, bucket, uploads, task>>

\* The backoff sleep ends.
HttpSleep ==
    /\ HttpInFlight
    /\ last.outcome = "waiting"
    /\ last' = [last EXCEPT !.outcome = "trying"]
    /\ UNCHANGED <<milvus, docs, chunks, mongo, provider, nextId, callers, bucket, uploads, task>>

InitHttp ==
    /\ Init
    /\ mongoUp

NextHttp ==
    \/ HttpStart
    \/ HttpAttempt
    \/ HttpSleep

SpecHttp == InitHttp /\ [][NextHttp]_vars

\* ------------------------------------------------- the collection name

\* A knowledge base id as a string: a sequence of characters, of which "-"
\* and "_" are the ones a name computation tells apart from the others.
KbChars == {"a", "-", "_"}
KbStrings == UNION {[1..n -> KbChars] : n \in 1..MaxKbLen}

\* str.replace(old, new) for single characters
StrReplace(str, old, new) == [i \in 1..Len(str) |-> IF str[i] = old THEN new ELSE str[i]]

\* f"colqwen_{kb_id}": DocumentProcessor (the three ingest paths),
\* create_kb_collection and search; CollectionName is this function on the
\* ids of KbIds.  The prefix is kept as one token.
FormatName(kb) == <<"colqwen", "_">> \o kb

\* f"colqwen{knowledge_db_id.replace('-', '_')}": the page pipeline
PipelineName(kb) == <<"colqwen">> \o StrReplace(kb, "-", "_")

NamePaths == {"ingest", "search", "pipeline"}

NameAt(path, kb) == IF path = "pipeline" THEN PipelineName(kb) ELSE FormatName(kb)

NameCall(p1, kb1, p2, kb2) ==
    [NoCall EXCEPT !.op = "collection_name", !.args = <<p1, kb1, p2, kb2>>,
                   !.outcome = "ok", !.res = <<NameAt(p1, kb1), NameAt(p2, kb2)>>]

\* Two computations of a collection name, by any two paths for any two ids.
Names ==
    \E p1 \in NamePaths, p2 \in NamePaths, kb1 \in KbStrings, kb2 \in KbStrings :
        /\ last' = NameCall(p1, kb1, p2, kb2)
        /\ UNCHANGED <<milvus, docs, chunks, mongo, provider, nextId, callers, bucket, uploads, task>>

InitName ==
    /\ Init
    /\ mongoUp
    /\ provider.forceMock

NextName == Names

SpecName == InitName /\ [][NextName]_vars

\* ------------------------------------------------- properties of ingestion

IngestOps == {"process_file", "process_image"}

RowsOf(kb) == milvus[CollectionName(kb)].rows

\* The vector index of kb holds a row for chunk cid.
Indexed(kb, cid) == \E i \in 1..Len(RowsOf(kb)) : RowsOf(kb)[i].id = cid

\* The metadata store holds a record for chunk cid of kb.
Recorded(kb, cid) == \E c \in chunks : c.id = cid /\ c.kb = kb

\* C1: after any sequence of ingest operations, failures included, every
\* chunk id is in both the vector index of its knowledge base and the
\* metadata store, or in neither.
C1_ChunkInBothStoresOrNeither ==
    \A kb \in KbIds, cid \in 1..MaxIds : Indexed(kb, cid) <=> Recorded(kb, cid)

\* C2: once process_file has written the raw upload (and the splitter has not
\* rejected the input), the call returns a document id, whatever later step
\* fails.
C2_PersistedIngestReturnsId ==
    (/\ last.op = "process_file"
     /\ ~(last.outcome = "error" /\ last.faults \subseteq {"write", "extract"}))
    => (last.outcome = "ok" /\ last.doc \in 1..MaxIds)

PdfCall == last.op = "process_file" /\ last.path = "pdf" /\ last.outcome = "ok"

\* C3: in the paginated path each page commits independently: a failure on
\* page k (embedding, indexing, persisting) leaves the committed pages before
\* it in both stores and the pages after it are still processed; with an
\* embedding outage on page 2 of 3, pages 1 and 3 are indexed, page 2 is in
\* neither store, and the document id is returned.
C3_PagesCommitIndependently ==
    (PdfCall /\ "convert" \notin last.faults) =>
        /\ (\A k \in 1..Len(last.log) : last.log[k].fault # {"save"})
           => Len(last.log) = last.n
        /\ \A k \in 1..Len(last.log) :
              LET e == last.log[k] IN
              (e.indexed /\ e.persisted)
                  => (Indexed(last.kb, e.cid) /\ Recorded(last.kb, e.cid))
        /\ (/\ last.n = 3
            /\ last.faults = {}
            /\ last.log[1].fault = {}
            /\ last.log[2].fault = {"infer"}
            /\ last.log[3].fault = {})
           => /\ Indexed(last.kb, last.log[1].cid)
              /\ Indexed(last.kb, last.log[3].cid)
              /\ ~last.log[2].indexed
              /\ ~last.log[2].persisted

\* A paginated ingest in which nothing failed: no call raised, the metadata
\* store is connected and the vectors have the collection's dimension.
PdfCallNoFailure ==
    /\ PdfCall
    /\ last.faults = {}
    /\ \A k \in 1..Len(last.log) : last.log[k].fault = {}
    /\ mongoUp
    /\ (IsModelLoaded(provider) => provider.hidden = DefaultDim)

\* C4: an n-page paginated document ingested with no failure has exactly n
\* chunks, all of kind pdf_page, with the page numbers 1..n in source order,
\* each chunk id in both the vector index and the metadata store.
C4_NPagesNChunks ==
    PdfCallNoFailure =>
        LET mine == {c \in chunks : c.doc_id = last.doc}
            rows == RowsOf(last.kb)
        IN
        /\ Cardinality(mine) = last.n
        /\ Cardinality({i \in 1..Len(rows) : rows[i].doc_id = last.doc}) = last.n
        /\ \A c \in mine : c.type = "pdf_page" /\ c.kb = last.kb
        /\ {c.ord : c \in mine} = 1..last.n
        /\ \A c \in mine : Indexed(last.kb, c.id)
        /\ Len(last.log) = last.n
        /\ \A k \in 1..Len(last.log) :
              \E c \in mine : c.id = last.log[k].cid /\ c.ord = k

C4_Witness == PdfCallNoFailure /\ last.n = MaxPages

\* C7: the dimension of a knowledge base is fixed by its first insert, and a
\* later insert of a vector of another dimension (one made when the
\* collection already holds a row) is fatal to the call.
C7_MismatchIsFatal ==
    \A kb \in KbIds :
        LET c == milvus[CollectionName(kb)] IN
        (c.exists /\ c.rows # <<>>) =>
            /\ c.dim = c.rows[1].vec.dim
            /\ \A k \in 1..Len(last.log) :
                  (/\ last.op \in IngestOps
                   /\ last.kb = kb
                   /\ last.log[k].cid # 0
                   /\ last.log[k].vec.dim # c.dim
                   /\ \E i \in 1..Len(c.rows) :
                         c.rows[i].id \notin {last.log[j].cid : j \in k..Len(last.log)})
                  => last.outcome = "error"

\* --------------------------------------------------- properties of retrieval

\* C8: a search against a knowledge base that has no collection returns the
\* empty list and no error; it never returns a hit.
C8_MissingCollectionGivesNoHit ==
    (last.op = "search" /\ last.path = "missing")
        => (last.outcome = "ok" /\ last.res = <<>>)

\* C9: every hit the vector index returns has exactly one entry in the
\* query result, a placeholder when its chunk record cannot be resolved: a
\* hit is degraded, never dropped.
C9_EveryHitHasOneEntry ==
    (last.op = "search" /\ last.path = "index") =>
        \A i \in 1..Len(last.hits) :
            /\ Cardinality({j \in 1..Len(last.res) : last.res[j].cid = last.hits[i].id}) = 1
            /\ \A j \in 1..Len(last.res) :
                  (last.res[j].cid = last.hits[i].id /\ last.res[j].kind = "full")
                      => \E c \in chunks : c.id = last.hits[i].id

\* C10: the query result has at most top_k entries and lists the hits in the
\* order the vector index returned them, which is non-increasing in score.
C10_ResultInIndexOrder ==
    last.op = "search" =>
        /\ Len(last.res) <= last.topk
        /\ \A i, j \in 1..Len(last.res) :
              i < j => ScoreLeq(last.res[j].score, last.res[i].score)
        /\ \A i, j \in 1..Len(last.res) :
              i < j => \E a, b \in 1..Len(last.hits) :
                          /\ a < b
                          /\ last.hits[a].id = last.res[i].cid
                          /\ last.hits[b].id = last.res[j].cid
        /\ \A i \in 1..Len(last.res) :
              \E a \in 1..Len(last.hits) : last.hits[a].id = last.res[i].cid

\* ------------------------------------------- properties of the index manager

\* C6: an insert whose lists do not all have one length reports failure and
\* inserts no row: the collection is as before and no list is replaced by
\* substitute values.
C6_MismatchedInsertFails ==
    (/\ last.op = "insert_vectors"
     /\ last.args.docIds # <<>>
     /\ \/ Len(last.args.docIds) # Len(last.args.ids)
        \/ Len(last.args.vecs) # Len(last.args.ids))
    => /\ last.outcome = "false"
       /\ RowsOf(last.kb) = last.before
       /\ \A i \in 1..Len(RowsOf(last.kb)) : RowsOf(last.kb)[i].doc_id > 0

\* ------------------------------------------ properties of ensure_collection

\* The callers that entered the routine for kb.
CallersOf(kb) == {c \in 1..NumCallers : callers[c].pc # "idle" /\ callers[c].kb = kb}

\* Concurrent calls of one routine for kb have all returned.
EnsureRaceOver(kb) ==
    /\ CallersOf(kb) # {}
    /\ \A c \in CallersOf(kb) : callers[c].pc = "done"
    /\ \A c, d \in CallersOf(kb) : callers[c].kind = callers[d].kind

\* C5: concurrent calls to ensure_collection for one kb_id and dimension end,
\* under every interleaving of their existence checks and create steps, with
\* the one collection of that kb_id in place and no caller seeing an error.
C5_ConcurrentEnsureConverges ==
    \A kb \in KbIds :
        EnsureRaceOver(kb) =>
            LET col == milvus[CollectionName(kb)] IN
            /\ col.exists
            /\ col.dim = DefaultDim
            /\ col.indexed
            /\ \A c \in CallersOf(kb) :
                  /\ callers[c].result = "ok"
                  /\ col.pk = PrimaryKey(callers[c].kind)

\* Every caller raced for kb1 through create_kb_collection and saw no
\* collection at its check.
C5_Witness ==
    /\ EnsureRaceOver("kb1")
    /\ \A c \in 1..NumCallers :
          c \in CallersOf("kb1") /\ callers[c].kind = "kb" /\ ~callers[c].seen

\* ------------------------------------------------ properties of the splitter

SplitOk == last.op = "split_text" /\ last.outcome = "ok"

\* ceil(a / b) for a >= 0 and b > 0
CeilDiv(a, b) == (a + b - 1) \div b

Max(a, b) == IF a > b THEN a ELSE b

\* C11 as stated: for a text of length L, a window W and an overlap O < W,
\* the splitter yields ceil(max(L - O, 0) / (W - O)) windows when L > 0 and
\* none when L = 0.
C11_WindowCount ==
    (SplitOk /\ last.args[2] < last.args[1]) =>
        Len(last.res) = IF last.n = 0 THEN 0
                        ELSE CeilDiv(Max(last.n - last.args[2], 0),
                                     last.args[1] - last.args[2])

\* C11 as amended: for a text of length L, a window W and an overlap O < W,
\* the splitter yields ceil(L / (W - O)) windows (none when L = 0).
C11_WindowCountAmended ==
    (SplitOk /\ last.args[2] < last.args[1]) =>
        Len(last.res) = CeilDiv(last.n, last.args[1] - last.args[2])

\* A text split with a positive overlap into windows of which the last ones
\* lie inside the overlap of their predecessor.
C11_Witness ==
    /\ SplitOk
    /\ last.args[2] > 0
    /\ last.args[2] < last.args[1]
    /\ Len(last.res) >= 3
    /\ Len(last.res) > CeilDiv(Max(last.n - last.args[2], 0), last.args[1] - last.args[2])

\* C12: for 0 <= O < W the i-th window is text[i*(W-O) : min(i*(W-O)+W, L)]
\* for every i with i*(W-O) < L and there is no other window; the last
\* window is cut at L, no window is empty, an empty text gives no window.
C12_WindowsAreSlices ==
    (SplitOk /\ 0 <= last.args[2] /\ last.args[2] < last.args[1]) =>
        LET L == last.n
            W == last.args[1]
            step == last.args[1] - last.args[2]
            offsets == {i \in 0..L : i * step < L}
        IN
        /\ Len(last.res) = Cardinality(offsets)
        /\ \A i \in offsets :
              /\ last.res[i + 1] = SubSeq(TextOf(L), i * step + 1, Min(i * step + W, L))
              /\ last.res[i + 1] # <<>>
              /\ Len(last.res[i + 1]) <= W
        /\ (L = 0 => last.res = <<>>)

\* A text split into overlapping windows, the last of them cut short.
C12_Witness ==
    /\ SplitOk
    /\ last.args[2] > 0
    /\ last.args[2] < last.args[1]
    /\ Len(last.res) >= 2
    /\ Len(last.res[Len(last.res)]) < last.args[1]
    /\ Len(last.res[1]) = last.args[1]

\* ------------------------------------- properties of the embedding provider

EmbedOps == {"process_query", "process_image"}

\* C13: process_query and process_image return one vector per input, in
\* input order, in every provider state and when inference fails in some
\* batch, and every vector returned, real or mock, has the provider's
\* embedding dimension.
C13_OneVectorPerInputOfFixedDim ==
    last.op \in EmbedOps =>
        /\ Len(last.res) = last.n
        /\ \A i \in 1..last.n :
              /\ last.res[i].dim = EmbeddingDim
              /\ (IsModelLoaded(provider) /\ last.faults = {})
                     => last.res[i].pt = RealPoint(last.args[i])

\* --------------------------------------------------- the round trip

\* C14: with a deterministic embedder (the model is loaded and inference
\* succeeds), a query with the text of an indexed chunk returns a list that
\* holds the id of that chunk, for every top_k that is at least the number
\* of chunks as near (a chunk is told by the vector of its text).
C14_RoundTrip ==
    (last.op = "search" /\ last.faults = {} /\ IsModelLoaded(provider)) =>
        LET rows == RowsOf(last.kb)
            q    == Vec(provider.hidden, RealPoint(last.args[1]))
            same == {i \in 1..Len(rows) : rows[i].vec = q}
        IN
        \A i \in same :
            last.topk >= Cardinality(same)
                => \E j \in 1..Len(last.res) : last.res[j].cid = rows[i].id

\* ------------------------------------------- properties of the collection name

\* C15: the collection name is a collision-free function of kb_id that every
\* ingest path and the query path compute alike: two computations give one
\* name exactly when they are given one kb_id.
C15_NameIsInjectiveAndShared ==
    last.op = "collection_name" =>
        ((last.res[1] = last.res[2]) <=> (last.args[2] = last.args[4]))

\* ------------------------------------------ properties of process_file

\* The document id of the last ingest is in no store.
NothingCreatedFor(doc) ==
    /\ \A d \in docs : d.id # doc
    /\ \A c \in chunks : c.doc_id # doc
    /\ \A kb \in KbIds : \A i \in 1..Len(RowsOf(kb)) : RowsOf(kb)[i].doc_id # doc

\* C16: when persisting the raw upload fails, process_file raises to its
\* caller and the ingestion has no document record, no chunk record and no
\* vector in any store.
C16_FailedWriteCreatesNothing ==
    (last.op = "process_file" /\ "write" \in last.faults) =>
        /\ last.outcome = "error"
        /\ NothingCreatedFor(last.doc)

\* A failed write after an earlier ingest filled the stores.
C16_Witness ==
    /\ last.op = "process_file"
    /\ last.faults = {"write"}
    /\ last.outcome = "error"
    /\ mongoUp
    /\ docs # {}
    /\ \E kb \in KbIds : RowsOf(kb) # <<>>

\* C17: when the splitter fails on its input (a PDF that cannot be rendered
\* to pages, a file that cannot be read, a file of an unsupported type),
\* process_file raises to its caller and returns no document id.
C17_BadInputIsFatal ==
    (/\ last.op = "process_file"
     /\ \/ "convert" \in last.faults
        \/ "extract" \in last.faults
        \/ last.args[1] = "bin")
    => last.outcome = "error"

\* C20: the flat text is split with the chunk_size and the chunk_overlap the
\* caller gave, chunk_overlap = 0 included, and with the configured default
\* only for a parameter that was omitted.
C20_SuppliedParametersAreUsed ==
    (/\ last.op = "process_file"
     /\ last.path = "flat"
     /\ last.outcome # "error")
    => /\ last.args[4] = IF last.args[2] = NoneVal THEN DefaultChunkSize
                         ELSE last.args[2][1]
       /\ last.args[5] = IF last.args[3] = NoneVal THEN DefaultChunkOverlap
                         ELSE last.args[3][1]
       /\ (last.args[2] # NoneVal /\ last.args[3] = <<0>>) => last.outcome = "ok"

\* --------------------------------------------------- properties of the score

\* a < b for two fractions with positive denominators.
ScoreLess(a, b) == a[1] * b[2] < b[1] * a[2]

\* C18: the score of every entry of a query result is 1/(1 + distance) of
\* the index distance of its hit; so a nearer hit has a strictly greater
\* score, and every score lies in (0, 1].
C18_ScoreIsInverseDistance ==
    last.op = "search" =>
        /\ \A j \in 1..Len(last.res) :
              /\ \E i \in 1..Len(last.hits) :
                    /\ last.hits[i].id = last.res[j].cid
                    /\ last.res[j].score = Score(last.hits[i].dist)
              /\ ScoreLess(<<0, 1>>, last.res[j].score)
              /\ ScoreLeq(last.res[j].score, <<1, 1>>)
        /\ \A i, j \in 1..Len(last.hits) :
              last.hits[i].dist < last.hits[j].dist
                  => ScoreLess(Score(last.hits[j].dist), Score(last.hits[i].dist))

\* ------------------------------------------- properties of the HTTP embedder

HttpOp == last.op = "get_embeddings_from_httpx"

\* C19: an embedding call over HTTP is attempted at most 3 times with a
\* backoff between the attempts, and when every attempt fails the caller
\* gets degraded vectors, one per input, and no error.
C19_BoundedRetryThenDegraded ==
    HttpOp =>
        /\ Len(last.log) <= MaxAttempts
        /\ (last.outcome = "trying" => Len(last.waits) = Len(last.log))
        /\ \A k \in 1..Len(last.waits) : last.waits[k] >= WaitMin
        /\ (Len(last.log) = MaxAttempts)
              => (last.outcome = "ok" /\ Len(last.res) = last.n)

\* ------------------------------------------ properties of the step order

IngestOk == last.op \in IngestOps /\ last.outcome = "ok"

\* C21: in every ingestion, on the paginated path and on the flat-text path
\* alike, the metadata record of a chunk is written only after the chunk's
\* vector has been inserted into the vector index: a chunk whose record was
\* written has its row in the index.
C21_RecordOnlyAfterInsert ==
    IngestOk =>
        \A k \in 1..Len(last.log) :
            last.log[k].persisted
                => (last.log[k].indexed /\ Indexed(last.kb, last.log[k].cid))

FlatCall == last.op = "process_file" /\ last.path = "flat" /\ last.outcome = "ok"

\* C22: after a flat-text ingest of a document that splits into n windows,
\* the vector index holds 0 or n vectors of the document and the metadata
\* store holds 0 or n chunk records of it: neither store is left with a
\* strict non-empty subset of the windows.
C22_FlatIngestIsAllOrNothing ==
    FlatCall =>
        LET n    == Len(last.log)
            rows == RowsOf(last.kb)
            vecs == Cardinality({i \in 1..Len(rows) : rows[i].doc_id = last.doc})
            recs == Cardinality({c \in chunks : c.doc_id = last.doc})
        IN
        /\ vecs \in {0, n}
        /\ recs \in {0, n}

\* ------------------------------------ properties of the collection's dimension

\* The first chunk of the last call for which an insert was prepared (0: none).
FirstPrepared(log) ==
    IF \E k \in 1..Len(log) : log[k].cid # 0
    THEN CHOOSE k \in 1..Len(log) :
            log[k].cid # 0 /\ \A j \in 1..(k - 1) : log[j].cid = 0
    ELSE 0

\* C23: when an ingest creates the collection of a knowledge base, the
\* collection's dimension is the dimension of the first vector produced for
\* it, so the first insert into the new collection is not refused for its
\* dimension: unless the insert call itself raises, the first vector is
\* indexed.
C23_CreatedWithFirstVectorsDim ==
    [][\A kb \in KbIds :
         LET name == CollectionName(kb)
             k    == FirstPrepared(last'.log)
         IN
         (/\ ~milvus[name].exists
          /\ milvus'[name].exists
          /\ last'.op \in IngestOps
          /\ last'.kb = kb
          /\ k # 0)
         => /\ milvus'[name].dim = last'.log[k].vec.dim
            /\ ("insert" \notin last'.faults \cup last'.log[k].fault)
                  => last'.log[k].indexed]_vars

\* ------------------------------------------- app/rag/process_file.py: the pipeline

\* page_number=i + 1 of db.add_images, i counted by enumerate(images_buffer)
ImagePageNumber(i) == i + 1

\* "page_number": i of milvus_client.insert, i counted by enumerate(embeddings)
RowPageNumber(i) == i

\* The steps of the pipeline that may raise: fetching the file, converting it,
\* saving the image of page k, recording the image of page k, the embedding
\* call and the insert of row k.
PipelineFaults(n) ==
    {<<"none", 0>>, <<"get", 0>>, <<"convert", 0>>, <<"embed", 0>>}
    \cup {<<f, k>> : f \in {"save", "add", "insert"}, k \in 1..n}

\* The pages whose image record is written before the fault strikes.
PagesRecorded(n, fault) ==
    IF fault[1] \in {"get", "convert"} THEN 0
    ELSE IF fault[1] \in {"save", "add"} THEN fault[2] - 1
    ELSE n

\* The rows inserted before the fault strikes.
RowsInserted(n, fault) ==
    IF fault[1] = "none" THEN n
    ELSE IF fault[1] = "insert" THEN fault[2] - 1
    ELSE 0

\* process_file(redis, task_id, username, knowledge_db_id, file_meta) for a
\* file of n pages.  db (app.db.mongo) and milvus_client are not part of the
\* source tree: each is kept as the requests the pipeline sends it, the
\* add_images requests in log and the insert requests in res.  Whatever
\* raises is reported to the task and raised again; the requests already sent
\* stand.
PipelineCall(kb, fileId, n, fault, images, rows) ==
    [NoCall EXCEPT !.op = "pipeline_process_file", !.kb = kb, !.doc = fileId,
                   !.n = n, !.path = "pipeline",
                   !.outcome = IF fault[1] = "none" THEN "ok" ELSE "error",
                   !.faults = IF fault[1] = "none" THEN {} ELSE {fault[1]},
                   !.log = images, !.res = rows]

PipelineProcessFile(kb, fileId, n, fault) ==
    LET recorded == PagesRecorded(n, fault)
        inserted == RowsInserted(n, fault)
        \* image_id = f"{username}_{uuid.uuid4()}": drawn for a page before its
        \* image record is sent
        drawn    == IF fault[1] = "add" THEN fault[2] ELSE recorded
        imageIds == [k \in 1..recorded |-> nextId + k - 1]
        \* generate_embeddings(images_buffer, filename): one vector per page
        embeddings == ProcessBatch(provider, [k \in 1..n |-> k],
                                   EndpointBatchSize("embed_image"), 0, [k \in 1..n |-> 0])
        images == [k \in 1..recorded |->
                     [page |-> ImagePageNumber(k - 1), id |-> imageIds[k],
                      doc_id |-> fileId]]
        rows   == [k \in 1..inserted |->
                     [page |-> RowPageNumber(k - 1), id |-> imageIds[k],
                      doc_id |-> fileId, vec |-> embeddings[k]]]
    IN
    /\ nextId + drawn - 1 <= MaxIds
    /\ nextId' = nextId + drawn
    /\ last' = PipelineCall(kb, fileId, n, fault, images, rows)
    /\ UNCHANGED <<milvus, docs, chunks, mongo, provider, callers, bucket, uploads, task>>

PipelineFileIds == 1..2

Pipeline ==
    \E kb \in KbIds, fileId \in PipelineFileIds, n \in 0..MaxPages :
      \E fault \in PipelineFaults(n) :
        /\ fault[1] \in {"get", "convert"} => n = 0
        /\ PipelineProcessFile(kb, fileId, n, fault)

\* The pipeline reads neither the metadata store of DocumentProcessor nor
\* the collections ColBERTService creates.
InitPipeline ==
    /\ Init
    /\ mongoUp

NextPipeline == Pipeline

SpecPipeline == InitPipeline /\ [][NextPipeline]_vars

\* ------------------------------------------- properties of the page numbers

PipelineOp == last.op = "pipeline_process_file"

\* C24: the page number stored with a chunk in the vector index equals the
\* page number stored for the same chunk in the metadata store, and both
\* equal the page's 1-based position in the source document, for every page
\* of every ingested document.
C24_PageNumbersAgree ==
    PipelineOp =>
        \A k \in 1..Len(last.res) :
            /\ last.res[k].page = k
            /\ \A j \in 1..Len(last.log) :
                  last.log[j].id = last.res[k].id
                      => (last.log[j].page = last.res[k].page /\ last.log[j].page = k)

\* ------------------------------------------- ingestion of files that do not read

\* A reader fails in one way, or not at all.
ReaderFaults == Singletons({"extract", "import"})

\* process_file for a file of a format that has a reader, the reader failing
\* or not and every other call succeeding.  A text the call never reads (the
\* reader failed) is empty, and it is split with the defaults.
IngestUnread ==
    \E kb \in KbIds, ext \in ReaderFormats, n \in 0..MaxPages, F \in ReaderFaults :
        /\ KbChoice(kb)
        /\ nextId + Max(n, 1) <= MaxIds
        /\ (ext # "pdf" /\ F # {}) => n = 0
        /\ ProcessFile(kb, ext, n, NoneVal, NoneVal, F,
                       [k \in 1..n |-> {}], {}, [k \in 1..Max(n, 1) |-> 0])

NextUnread == IngestUnread

SpecUnread == Init /\ [][NextUnread]_vars

\* ------------------------------------------- properties of the extraction

\* The reader of the last file raised.
ReaderRaised ==
    /\ last.op = "process_file"
    /\ last.args[1] \in ReaderFormats
    /\ "extract" \in last.faults

KbCreate ==
    \E kb \in MgrKbIds, dim \in HiddenSizes, down \in BOOLEAN :
        /\ milvus' = CreateKbCollection(milvus, kb, dim, down)
        /\ last' = [MgrCall("create_kb_collection", kb, <<dim>>, "none", <<>>)
                       EXCEPT !.faults = IF down THEN {"down"} ELSE {}]
        /\ UNCHANGED <<docs, chunks, mongo, provider, nextId, callers, bucket, uploads, task>>

\* The two routines that ensure a collection, and inserts between them.
NextSequential ==
    \/ MgrCreate
    \/ KbCreate
    \/ MgrInsert

SpecSequential == InitMilvus /\ [][NextSequential]_vars

EnsureOps == {"create_collection", "create_kb_collection"}

\* C26: ensure_collection called for a kb_id whose collection exists creates
\* nothing and leaves the collection's schema, dimension and rows as they
\* are, also when the call passes another dim; and create_collection returns
\* the existing collection (unless Milvus cannot be reached).
C26_EnsureIsIdempotent ==
    [][\A kb \in KbIds :
         (/\ milvus[CollectionName(kb)].exists
          /\ last'.op \in EnsureOps
          /\ last'.kb = kb)
         => /\ milvus' = milvus
            /\ (last'.op = "create_collection" /\ last'.faults = {})
                  => last'.outcome = "collection"]_vars

\* A collection that holds rows was ensured again with another dim.
C26_Witness ==
    /\ last.op \in EnsureOps
    /\ last.faults = {}
    /\ last.before # <<>>
    /\ RowsOf(last.kb) = last.before
    /\ last.args[1] # milvus[CollectionName(last.kb)].dim

\* ------------------------------------------- properties of the rows' doc_id

\* C27: every row of a vector index carries as doc_id the document id of
\* the ingest call that produced it, never a substitute, and that id is the
\* id of a document record in the metadata store.
C27_RowTracesToDocument ==
    \A kb \in KbIds :
        \A i \in 1..Len(RowsOf(kb)) :
            LET row == RowsOf(kb)[i] IN
            /\ row.doc_id > 0
            /\ (/\ last.op \in IngestOps
                /\ last.kb = kb
                /\ \E k \in 1..Len(last.log) : last.log[k].cid = row.id)
               => row.doc_id = last.doc
            /\ \E d \in docs : d.id = row.doc_id /\ d.kb = kb

\* ------------------------------------------- the batches of the provider

\* process_query / process_image for inputs that are told apart by their
\* position.  An inference failure is drawn only where the model is called.
EmbedMany(op) ==
    \E n \in 0..MaxInputs :
      \E failBatch \in 0..NumBatches(n, BatchSizeOf(op)) :
        LET inputs == [i \in 1..n |-> i]
            rnds   == [i \in 1..n |-> 0]
        IN
        /\ failBatch # 0 => IsModelLoaded(provider)
        /\ last' = EmbedCall(op, inputs, failBatch,
                             ModelCalls(provider, inputs, BatchSizeOf(op), failBatch),
                             ProcessBatch(provider, inputs, BatchSizeOf(op), failBatch, rnds))
        /\ UNCHANGED <<milvus, docs, chunks, mongo, provider, nextId, callers, bucket, uploads, task>>

EmbedManyTexts == EmbedMany("process_query")

EmbedManyImages == EmbedMany("process_image")

NextBatch ==
    \/ EmbedManyTexts
    \/ EmbedManyImages

SpecBatch == InitEmbed /\ [][NextBatch]_vars

\* ------------------------------------------- properties of the batches

\* The inputs of the calls, one call after the other.
RECURSIVE Concat(_, _)
Concat(seqs, k) == IF k > Len(seqs) THEN <<>> ELSE seqs[k] \o Concat(seqs, k + 1)

\* C28: the provider never hands the model more than 8 texts (process_query)
\* or 4 images (process_image) in one call, whatever the number of inputs;
\* the batches cover every input exactly once, in input order, and the
\* vectors returned are those of the batches in that order.
C28_BatchesAreBoundedAndCover ==
    last.op \in EmbedOps =>
        LET calls == last.log
            given == Concat(calls, 1)
        IN
        /\ \A k \in 1..Len(calls) :
              Len(calls[k]) >= 1 /\ Len(calls[k]) <= BatchSizeOf(last.op)
        /\ Len(given) <= last.n
        /\ given = SubSeq(last.args, 1, Len(given))
        /\ (IsModelLoaded(provider) /\ last.faults = {}) =>
              /\ given = last.args
              /\ Len(last.res) = last.n
              /\ \A i \in 1..last.n :
                    last.res[i] = Vec(provider.hidden, RealPoint(last.args[i]))

\* More texts than two batches hold: two full calls and a shorter third.
C28_Witness ==
    /\ last.op = "process_query"
    /\ last.faults = {}
    /\ Len(last.log) = 3
    /\ Len(last.log[1]) = TextBatchSize
    /\ Len(last.log[3]) < TextBatchSize
    /\ Len(last.res) = last.n

\* ------------------------------------------- app/db/minio.py: AsyncMinIOManager

ObjectKeys == 1..MaxKeys

\* A call of the adapter: outcome "ok" (it returned res) or "error" (it
\* raised); log holds the requests sent to the store and hits the keys the
\* store listed as failed in its responses.
ObjectCall(op, keys, outcome, faults, requests, errors, res) ==
    [NoCall EXCEPT !.op = op, !.args = keys, !.n = Len(keys), !.outcome = outcome,
                   !.faults = faults, !.log = requests, !.hits = errors, !.res = res]

\* try: <store call> except Exception as e: logger.exception(...); raise e
\* What the caller of upload_image, upload_file, get_file_from_minio,
\* download_image_and_convert_to_base64 and create_presigned_url sees.
Reraised(fails) == IF fails THEN "error" ELSE "ok"

\* upload_image(file_name, image_stream) / upload_file(file_name, upload_file)
Upload ==
    \E op \in {"upload_image", "upload_file"}, key \in ObjectKeys, fails \in BOOLEAN :
        /\ bucket' = IF fails THEN bucket ELSE bucket \cup {key}
        /\ last' = ObjectCall(op, <<key>>, Reraised(fails),
                              IF fails THEN {"put"} ELSE {}, <<>>, <<>>, <<>>)
        /\ UNCHANGED <<milvus, docs, chunks, mongo, provider, nextId, callers, uploads, task>>

\* get_file_from_minio(minio_filename) /
\* download_image_and_convert_to_base64(file_name): get_object raises for a
\* key the bucket does not hold, and when the store cannot be reached.
Download ==
    \E op \in {"get_file_from_minio", "download_image_and_convert_to_base64"},
       key \in ObjectKeys, fails \in BOOLEAN :
        LET raised == fails \/ key \notin bucket IN
        /\ fails => key \in bucket
        /\ last' = ObjectCall(op, <<key>>, Reraised(raised),
                              IF raised THEN {"get"} ELSE {}, <<>>, <<>>,
                              IF raised THEN <<>> ELSE <<key>>)
        /\ UNCHANGED <<milvus, docs, chunks, mongo, provider, nextId, callers, bucket, uploads, task>>

\* validate_file_existence(filename): True, False for a ClientError with
\* code 404, and any other error of head_object is raised again.
ValidateFileExistence ==
    \E key \in ObjectKeys, fails \in BOOLEAN :
        /\ last' = ObjectCall("validate_file_existence", <<key>>, Reraised(fails),
                              IF fails THEN {"head"} ELSE {}, <<>>, <<>>,
                              IF fails THEN <<>> ELSE <<key \in bucket>>)
        /\ UNCHANGED <<milvus, docs, chunks, mongo, provider, nextId, callers, bucket, uploads, task>>

\* The elements of a sequence.
Range(s) == {s[i] : i \in DOMAIN s}

\* The keys of S in ascending order.  Keys numbered 1..m are listed
\* directly, any other set by the rank of each key.
SortedKeys(S) ==
    LET m == Cardinality(S)
        rank == [k \in S |-> Cardinality({j \in S : j <= k})]
    IN
    IF S = 1..m THEN [i \in 1..m |-> i]
    ELSE [i \in 1..m |-> CHOOSE k \in S : rank[k] = i]

\* list(set(keys)): the distinct keys in one order (a Python set has no
\* defined order; the ascending one is taken).
UniqueKeys(keys) == SortedKeys(Range(keys))

\* for i in range(0, len(unique_keys), 1000): unique_keys[i : i + 1000]
RECURSIVE DeleteChunks(_, _)
DeleteChunks(unique, start) ==
    IF start >= Len(unique) THEN <<>>
    ELSE <<SubSeq(unique, start + 1, Min(start + DeleteChunkSize, Len(unique)))>>
         \o DeleteChunks(unique, start + DeleteChunkSize)

\* The first request that ends the loop (0: none): the one whose
\* delete_objects raises (raises) or the first whose response lists Errors,
\* which are the keys of bad it holds.
FirstStop(requests, bad, raises) ==
    LET stops(k) == k = raises \/ Range(requests[k]) \cap bad # {}
    IN IF \E k \in 1..Len(requests) : stops(k)
       THEN CHOOSE k \in 1..Len(requests) : stops(k) /\ \A j \in 1..(k - 1) : ~stops(j)
       ELSE 0

\* bulk_delete(keys).  bad: the keys the store fails to delete and lists in
\* Errors; raises: the request whose delete_objects raises (0: none).  The
\* loop over the errors logs the first entry of Errors (any of the failed
\* keys) and executes a bare "raise" (RuntimeError: no active exception),
\* which the except clause logs and raises again.  res: the keys logged as
\* failed.
BulkDeleteCall(keys, bad, raises) ==
    LET unique   == UniqueKeys(keys)
        all      == DeleteChunks(unique, 0)
        stop     == FirstStop(all, bad, raises)
        sent     == IF stop = 0 THEN all ELSE SubSeq(all, 1, stop)
        answered == IF stop # 0 /\ stop = raises THEN SubSeq(all, 1, stop - 1) ELSE sent
        errors   == IF stop # 0 /\ stop # raises THEN Range(all[stop]) \cap bad ELSE {}
        deleted  == UNION {Range(answered[k]) : k \in 1..Len(answered)} \ bad
    IN
    /\ bucket' = bucket \ deleted
    /\ \E first \in IF errors = {} THEN {0} ELSE errors :
         last' = ObjectCall("bulk_delete", keys, IF stop = 0 THEN "ok" ELSE "error",
                            (IF bad # {} THEN {"errors"} ELSE {})
                            \cup (IF raises # 0 THEN {"delete"} ELSE {}),
                            sent,
                            IF errors # {} THEN <<first>> \o SortedKeys(errors \ {first})
                            ELSE <<>>,
                            IF errors # {} THEN <<first>> ELSE <<>>)
    /\ UNCHANGED <<milvus, docs, chunks, mongo, provider, nextId, callers, uploads, task>>

\* The lengths of the key lists: short ones, and those around the request
\* size and its multiples.
KeyCounts ==
    0..3 \cup {DeleteChunkSize, MaxRequests * DeleteChunkSize + 1}

\* The keys the store reports as failed: none, one, two of one request, one
\* in each of two requests.
BadKeySets(m) ==
    {S \in {{}, {1}, {1, 2}, {2, m}, {DeleteChunkSize + 1}} : S \subseteq 1..m}

\* keys: m distinct keys, the first dup of them given twice (in a short
\* list: the requests of a long one are the same with or without it).
BulkDelete ==
    \E m \in KeyCounts, dup \in 0..1, raises \in 0..1 :
      \E bad \in BadKeySets(m) :
        /\ dup <= m
        /\ dup = 1 => m < DeleteChunkSize
        /\ raises = 1 => (m > 0 /\ bad = {})
        /\ BulkDeleteCall([i \in 1..m |-> i] \o [i \in 1..dup |-> i], bad, raises)

NextObjects ==
    \/ Upload
    \/ Download
    \/ ValidateFileExistence
    \/ BulkDelete

\* The adapter reads none of the other stores.
InitObjects ==
    /\ Init
    /\ mongoUp
    /\ provider.forceMock

SpecObjects == InitObjects /\ [][NextObjects]_vars

\* ------------------------------------------- properties of the store adapters

MilvusOps == {"create_collection", "insert_vectors", "search"}

ObjectOps ==
    {"upload_image", "upload_file", "get_file_from_minio",
     "download_image_and_convert_to_base64", "validate_file_existence", "bulk_delete"}

\* C29: the store adapters report a failure as an explicit outcome and never
\* raise: every operation of MilvusManager returns its failure value (None,
\* False, an empty list) whichever call fails, and the operations of the
\* object-store adapter do likewise.
C29_AdaptersNeverRaise ==
    last.op \in MilvusOps \cup ObjectOps => last.outcome # "error"

\* ------------------------------------------- properties of bulk_delete

BulkDeleteOp == last.op = "bulk_delete"

\* C30: bulk_delete(keys) submits every distinct key exactly once, in
\* requests of at most 1000 keys, makes no store call for an empty list, and
\* when the store reports keys it failed to delete, every such key is
\* reported before the failure is signalled to the caller.
C30_BulkDeleteSubmitsAndReportsAll ==
    BulkDeleteOp =>
        LET requests  == last.log
            submitted == Concat(requests, 1)
        IN
        /\ \A k \in 1..Len(requests) :
              Len(requests[k]) >= 1 /\ Len(requests[k]) <= DeleteChunkSize
        /\ (last.args = <<>> => requests = <<>>)
        /\ last.faults = {} =>
              /\ Range(submitted) = Range(last.args)
              /\ Len(submitted) = Cardinality(Range(last.args))
        /\ last.hits # <<>> =>
              /\ last.outcome = "error"
              /\ Range(last.res) = Range(last.hits)

\* --------------------------------------------------- POST /hybrid_search

\* result.get("metadata", {}).get("source") == "pdf": search sets that source
\* only on the entry of a chunk record of type "pdf_page"; no record's own
\* metadata holds a "source" key, and a mock entry has the source "mock".
IsPdfResult(entry) ==
    entry.kind = "full" /\ \E c \in chunks : c.id = entry.cid /\ c.type = "pdf_page"

\* chunks_collection.find_one({"_id": chunk_id}) / docs_collection.find_one(
\* {"_id": doc_id}): the records found, none or one.
FindChunk(cid) == {c \in chunks : c.id = cid}
FindDoc(docId) == {d \in docs : d.id = docId}

\* The fields the loop adds to an entry; an absent key is NoneVal.  The image
\* path of a page is told by its chunk, the filename by its document.
Enhancement(imagePath, filename) == [image_path |-> imagePath, filename |-> filename]

EnhanceEntry_AllHits(entry, f) == Enhancement(<<entry.cid>>, <<entry.doc>>)

\* The body of the loop for one entry.  f: the lookup that raises ("chunk":
\* chunks_collection.find_one, "doc": docs_collection.find_one, "none").
\* The inner except catches what the truth test and the lookups raise; the
\* fields set before the raise stay on the entry.
EnhanceEntry(entry, f) ==
    LET found     == FindChunk(entry.cid)
        imagePath == IF \E c \in found : c.type = "pdf_page"
                     THEN <<entry.cid>> ELSE NoneVal
    IN
    IF ~IsPdfResult(entry) \/ ~mongoUp \/ f = "chunk"
    THEN Enhancement(NoneVal, NoneVal)
    ELSE IF f = "doc"
    THEN Enhancement(imagePath, NoneVal)
    ELSE Enhancement(imagePath,
                     IF FindDoc(entry.doc) # {} THEN <<entry.doc>> ELSE NoneVal)

\* The entry as returned: the dictionary search built, mutated in place.
Enhanced(entry, f) ==
    LET e == EnhanceEntry(entry, f) IN
    [cid |-> entry.cid, doc |-> entry.doc, score |-> entry.score, kind |-> entry.kind,
     image_path |-> e.image_path, filename |-> e.filename]

LookupFaults == {"none", "chunk", "doc"}

\* hybrid_search(request): results = service.search(...), then the loop.
\* `before` keeps the list search returned, `log` the lookup that raised
\* for each entry.  search raises nothing, so the outer except is not
\* reached.
HybridSearch(kb, query, topk, F) ==
    /\ \E r \in SearchOutcomes(kb, query, topk, F) :
         \E ef \in [1..Len(r.res) -> LookupFaults] :
           \* a lookup raises only where it is made, and one failure is
           \* injected per call
           /\ \A i \in 1..Len(ef) : ef[i] # "none" => IsPdfResult(r.res[i]) /\ mongoUp
           /\ \A i, j \in 1..Len(ef) : ef[i] # "none" /\ ef[j] # "none" => i = j
           /\ (\E i \in 1..Len(ef) : ef[i] # "none") => F = {}
           /\ last' = [r EXCEPT !.op = "hybrid_search", !.before = r.res, !.log = ef,
                                !.res = [i \in 1..Len(r.res) |-> Enhanced(r.res[i], ef[i])]]
    /\ UNCHANGED <<milvus, docs, chunks, mongo, provider, nextId, callers, bucket, uploads, task>>

\* One query text is asked: which rows come first does not bear on what is
\* added to them.
HybridQuery ==
    \E kb \in MgrKbIds, query \in IngestDraws, topk \in TopKs, F \in SearchFaults :
        HybridSearch(kb, query, topk, F)

\* The PDFs ingested before a query: every page stored, the document record
\* written or not.
IngestPages ==
    \E kb \in MgrKbIds, n \in 1..MaxPages, F \in Singletons({"doc"}) :
        /\ nextId + n <= MaxIds
        /\ ProcessFile(kb, "pdf", n, NoneVal, NoneVal, F, [k \in 1..n |-> {}], {},
                       [k \in 1..n |-> 0])

\* The search endpoint over a store of PDF pages and single images.
NextHybrid ==
    \/ IngestPages
    \/ IngestImage({{}}, {0})
    \/ HybridQuery

\* The model is loaded and its vectors have the width of the collections.
InitHybrid == Init /\ IsModelLoaded(provider) /\ provider.hidden = DefaultDim

SpecHybrid == InitHybrid /\ [][NextHybrid]_vars

HybridOp == last.op = "hybrid_search"

\* C31 (as stated): hybrid_search returns the hits of its search in the same
\* order with the same chunk_id, doc_id and score, adds image_path and
\* filename to page-type hits only, and an entry whose lookup raised carries
\* neither field while the query still answers.
C31_HybridRefinesSearch ==
    HybridOp =>
        /\ last.outcome = "ok"
        /\ Len(last.res) = Len(last.before)
        /\ \A i \in 1..Len(last.res) :
              /\ last.res[i].cid = last.before[i].cid
              /\ last.res[i].doc = last.before[i].doc
              /\ last.res[i].score = last.before[i].score
              /\ last.res[i].kind = last.before[i].kind
              /\ (last.res[i].image_path # NoneVal \/ last.res[i].filename # NoneVal)
                    => IsPdfResult(last.before[i])
              /\ last.log[i] # "none" =>
                    last.res[i].image_path = NoneVal /\ last.res[i].filename = NoneVal

\* C31 (amended): as above, but an entry whose lookup raised lacks the field
\* that lookup resolves and every field resolved after it: neither field
\* when the chunk lookup raised, the filename when the document lookup
\* raised (the image_path set before it stays).
C31_HybridRefinesSearchAmended ==
    HybridOp =>
        /\ last.outcome = "ok"
        /\ Len(last.res) = Len(last.before)
        /\ \A i \in 1..Len(last.res) :
              /\ last.res[i].cid = last.before[i].cid
              /\ last.res[i].doc = last.before[i].doc
              /\ last.res[i].score = last.before[i].score
              /\ last.res[i].kind = last.before[i].kind
              /\ (last.res[i].image_path # NoneVal \/ last.res[i].filename # NoneVal)
                    => IsPdfResult(last.before[i])
              /\ last.log[i] = "chunk" =>
                    last.res[i].image_path = NoneVal /\ last.res[i].filename = NoneVal
              /\ last.log[i] = "doc" => last.res[i].filename = NoneVal

\* A query that returned a page hit enriched with both fields and a page hit
\* whose document lookup raised.
C31_Witness ==
    /\ HybridOp
    /\ \E i \in 1..Len(last.res) :
          last.log[i] = "doc" /\ last.res[i].image_path # NoneVal
    /\ \E i \in 1..Len(last.res) :
          last.log[i] = "none" /\ last.res[i].filename # NoneVal

\* -------------------------------------------------------- sort_and_filter

\* The search results handed to sort_and_filter: dictionaries with a "score",
\* told apart by an id.
Items == [id : 1..2, score : 0..MaxScore]

KeepAbove_Strict(data, minScore) ==
    LET above(item) == item.score > minScore[1] IN
    IF minScore # NoneVal THEN SelectSeq(data, above) ELSE data

\* if min_score is not None: data = [item for item in data if item["score"] >= min_score]
\* (SelectSeq is the list comprehension with a condition)
KeepAbove(data, minScore) ==
    LET above(item) == item.score >= minScore[1] IN
    IF minScore # NoneVal THEN SelectSeq(data, above) ELSE data

\* if max_score is not None: data = [item for item in data if item["score"] <= max_score]
KeepBelow(data, maxScore) ==
    LET below(item) == item.score <= maxScore[1] IN
    IF maxScore # NoneVal THEN SelectSeq(data, below) ELSE data

\* sorted(data, key=score, reverse=True): a stable sort, so items of one
\* score keep the order they had; built by inserting each item behind the
\* items that score at least as much.
InsertByScore(sorted, item) ==
    LET ahead == Cardinality({i \in 1..Len(sorted) : sorted[i].score >= item.score}) IN
    SubSeq(sorted, 1, ahead) \o <<item>> \o SubSeq(sorted, ahead + 1, Len(sorted))

RECURSIVE SortedByScore(_, _)
SortedByScore(data, k) ==
    IF k = 0 THEN <<>> ELSE InsertByScore(SortedByScore(data, k - 1), data[k])

\* sort_and_filter(data, min_score, max_score): the list returned and the
\* caller's list after the call (the comprehensions and sorted() build new
\* lists; the parameter is rebound, the caller's list is not written).
SortAndFilter(data, minScore, maxScore) ==
    LET kept == KeepBelow(KeepAbove(data, minScore), maxScore) IN
    [res |-> SortedByScore(kept, Len(kept)), data |-> data]

ScoreBounds == {NoneVal} \cup {<<s>> : s \in 0..MaxScore}

ItemLists == UNION {[1..n -> Items] : n \in 0..MaxItems}

\* A call of sort_and_filter on the arguments drawn at the start: `args` its
\* arguments, `res` the list returned, `before` the caller's list after the
\* call.
SortCall ==
    LET r == SortAndFilter(last.args[1], last.args[2], last.args[3]) IN
    /\ last.op = "none"
    /\ last' = [last EXCEPT !.op = "sort_and_filter", !.outcome = "ok",
                            !.res = r.res, !.before = r.data]
    /\ UNCHANGED <<milvus, docs, chunks, mongo, provider, nextId, callers, bucket, uploads, task>>

\* The arguments of the call: any list of items and any pair of bounds.
InitSort ==
    /\ milvus = [name \in CollNames |-> NoCollection]
    /\ docs = {}
    /\ chunks = {}
    /\ mongo = "truthy"
    /\ provider = [forceMock |-> TRUE, loaded |-> TRUE, hidden |-> 768]
    /\ nextId = 1
    /\ callers = NoCallers
    /\ bucket = {}
    /\ uploads = {}
    /\ task = NoTask
    /\ \E data \in ItemLists, minScore \in ScoreBounds, maxScore \in ScoreBounds :
          last = [NoCall EXCEPT !.args = <<data, minScore, maxScore>>]

NextSort == SortCall

SpecSort == InitSort /\ [][NextSort]_vars

SortOp == last.op = "sort_and_filter"

\* How often item x occurs in the list s.
Occurrences(s, x) == Cardinality({i \in 1..Len(s) : s[i] = x})

\* Whether a score passes the bounds given.
InBounds(score, minScore, maxScore) ==
    /\ minScore # NoneVal => minScore[1] <= score
    /\ maxScore # NoneVal => score <= maxScore[1]

\* C32: sort_and_filter returns exactly the items whose score lies within
\* the bounds given, each as often as the input holds it, in non-increasing
\* order of score, and the caller's list is as it was.
C32_SortAndFilter ==
    SortOp =>
        LET data == last.args[1]
            lo   == last.args[2]
            hi   == last.args[3]
        IN
        /\ \A x \in Items :
              Occurrences(last.res, x) =
                 (IF InBounds(x.score, lo, hi) THEN Occurrences(data, x) ELSE 0)
        /\ \A i \in 1..(Len(last.res) - 1) : last.res[i].score >= last.res[i + 1].score
        /\ last.before = data

\* A call with a lower bound that dropped an item below it and put two kept
\* items, given in rising order of score, the other way round.
C32_Witness ==
    /\ SortOp
    /\ last.args[2] # NoneVal
    /\ \E i \in 1..Len(last.args[1]) : last.args[1][i].score < last.args[2][1]
    /\ \E i, j \in 1..Len(last.args[1]) :
          /\ i < j
          /\ last.args[2][1] <= last.args[1][i].score
          /\ last.args[1][i].score < last.args[1][j].score
    /\ Len(last.res) = 2

\* ----------------------------------------------- termination of _split_text

FlatSplitCall ==
    last.op = "process_file" /\ last.path = "flat" /\ last.outcome # "error"

\* C33: every flat-text ingest returns: whatever chunk_size and
\* chunk_overlap the caller gives, the splitter's start offset grows on
\* every iteration it makes (size - overlap > 0 for a non-empty text), so
\* the call does not hang.
C33_SplitAlwaysTerminates ==
    FlatSplitCall =>
        /\ last.outcome # "hang"
        /\ last.args[6].text # <<>> => last.args[4] - last.args[5] > 0

\* ------------------------------------------------------ the upload directory

\* self.upload_dir / filename: a filename is a stem and a suffix, and the
\* upload directory is one, so the path is told by the filename alone.
UploadPath(stem, ext) == <<stem, ext>>

\* open(file_path, "wb").write(file_content) / pil_image.save(file_path): the
\* file at the path holds the body written last.
Written(files, path, body) ==
    {f \in files : f.path # path} \cup {[path |-> path, body |-> body]}

\* The document record with the location it records: "_id", "kb_id",
\* "file_path".
StoredDoc(docId, kb, path) == [id |-> docId, kb |-> kb, file_path |-> path]

\* A call that stores an upload: `args` are the path and the body given.
UploadCall(op, kb, docId, path, body, outcome, faults) ==
    [NoCall EXCEPT !.op = op, !.kb = kb, !.doc = docId, !.args = <<path, body>>,
                   !.outcome = outcome, !.faults = faults]

\* What a call does to the upload directory and to the document records:
\* the file is written first (a write that raises leaves the file as it
\* was), then the truth test of docs_collection runs outside any try, then
\* the record is inserted inside one.  earlier: what raises before the
\* write; writeFails: the write raises.
StoreUpload(op, kb, path, body, F, earlier, writeFails) ==
    LET docId  == nextId
        raised == IF earlier # {} THEN earlier
                  ELSE IF writeFails THEN F
                  ELSE IF TruthTestRaises THEN {"truth"} ELSE {}
        saved  == earlier = {} /\ ~writeFails
    IN
    /\ nextId <= MaxIds
    /\ nextId' = nextId + 1
    /\ uploads' = IF saved THEN Written(uploads, path, body) ELSE uploads
    /\ docs' = IF raised = {} /\ mongoUp /\ "doc" \notin F
               THEN docs \cup {StoredDoc(docId, kb, path)}
               ELSE docs
    /\ last' = UploadCall(op, kb, docId, path, body,
                          IF raised = {} THEN "ok" ELSE "error",
                          IF raised = {} THEN F ELSE raised)
    /\ "doc" \in F => mongoUp
    /\ UNCHANGED <<milvus, chunks, mongo, provider, callers, bucket, task>>

UploadStems == {"a", "b"}
\* The bodies uploaded: two files of different bytes.
UploadBodies == 0..1

\* process_file(file_content, filename, kb_id): lines 66-96, the write of
\* the upload and the document record.  The steps that follow write the
\* vector collection and the chunk records only (Spec follows them).
StoreFile ==
    \E kb \in MgrKbIds, stem \in UploadStems, body \in UploadBodies,
       F \in Singletons({"write", "doc"}) :
        StoreUpload("process_file", kb, UploadPath(stem, "txt"), body, F,
                    {}, "write" \in F)

\* process_image(image: bytes, filename, kb_id): lines 209-247.  Image.open
\* runs before the save ("open"); pil_image.save writes the image under the
\* filename ("save": it raises).
StoreImage ==
    \E kb \in MgrKbIds, stem \in UploadStems, body \in UploadBodies,
       F \in Singletons({"open", "save", "doc"}) :
        StoreUpload("process_image", kb, UploadPath(stem, "png"), body, F,
                    F \cap {"open"}, "save" \in F)

NextUpload ==
    \/ StoreFile
    \/ StoreImage

\* The model is not called on this path.
InitUpload == Init /\ provider.forceMock

SpecUpload == InitUpload /\ [][NextUpload]_vars

\* C35: the location a document record names holds the bytes ingested for
\* that document when the record is written, and no later ingest changes
\* the file at the location of a recorded document.
C35_RawObjectStaysBound ==
    [][/\ \A d \in docs' \ docs :
             [path |-> d.file_path, body |-> last'.args[2]] \in uploads'
       /\ \A d \in docs : \A f \in uploads :
             f.path = d.file_path => f \in uploads']_vars

\* ------------------------------------------------------ provenance of hits

SearchOp == last.op = "search"

\* C34: every entry a search returns carries the chunk_id and doc_id of a
\* row that an ingest inserted into the collection of the knowledge base
\* queried, also when the collection is missing or the index search raises.
C34_HitsComeFromTheCollection ==
    SearchOp =>
        \A i \in 1..Len(last.res) :
            \E r \in 1..Len(RowsOf(last.kb)) :
                /\ RowsOf(last.kb)[r].id = last.res[i].cid
                /\ RowsOf(last.kb)[r].doc_id = last.res[i].doc

\* ------------------------------------------- task progress (rag/process_file)

\* The files of a task: one process_file coroutine each, run concurrently on
\* one event loop, so a coroutine runs from one await to the next without
\* interleaving and every awaited Redis command is one step.
Files == 1..NumCallers

\* A coroutine: where it is (pc), the value it read from "processed"
\* (current) and, once it has raised, the step that raised (at).
\*   "work"     lines 59-105: download, convert, store, embed, insert
\*   "incr"     before redis.hincrby(task, "processed", 1)
\*   "read"     before redis.hget(task, "processed")
\*   "total"    before redis.hget(task, "total") and the comparison
\*   "status"   before redis.hset(task, "status", "completed")
\*   "message"  before redis.hset(task, "message", ...)
\*   "done"     returned;  "failed": raised after handle_processing_error
Coroutine(pc, current) == [pc |-> pc, current |-> current, at |-> ""]

IncrementProcessed_Overwrites(processed) == 1

AllProcessed_AnyCount(current, total) == current >= 1

\* HINCRBY processed 1: Redis runs the command atomically.
IncrementProcessed(processed) == processed + 1

\* if current == total
AllProcessed(current, total) == current = total

\* handle_processing_error(redis, task_id, error_msg): one HSET of status and
\* message; the coroutine then re-raises.
HandleProcessingError(c) ==
    /\ task' = [task EXCEPT !.status = "failed", !.message = "failed"]
    /\ callers' = [callers EXCEPT ![c].pc = "failed", ![c].at = callers[c].pc]

\* The except branch taken from the step the coroutine is at.
Fails(c) ==
    /\ callers[c].pc \in {"work", "read", "total", "status", "message"}
    /\ HandleProcessingError(c)
    /\ UNCHANGED <<milvus, docs, chunks, mongo, provider, nextId, last, bucket, uploads>>

\* hincrby raises: the server has applied the increment or has not (the
\* reply was lost or the command never arrived).
IncrFails(c) ==
    /\ callers[c].pc = "incr"
    /\ \E applied \in BOOLEAN :
         /\ task' = [task EXCEPT !.status = "failed", !.message = "failed",
                                 !.processed = IF applied THEN IncrementProcessed(@) ELSE @]
         /\ callers' = [callers EXCEPT ![c].pc = "failed", ![c].at = "incr"]
    /\ UNCHANGED <<milvus, docs, chunks, mongo, provider, nextId, last, bucket, uploads>>

\* Lines 59-105 end without an exception.
Work(c) ==
    /\ callers[c].pc = "work"
    /\ callers' = [callers EXCEPT ![c].pc = "incr"]
    /\ UNCHANGED <<milvus, docs, chunks, mongo, provider, nextId, last, bucket, uploads, task>>

\* await redis.hincrby(f"task:{task_id}", "processed", 1)
Incr(c) ==
    /\ callers[c].pc = "incr"
    /\ task' = [task EXCEPT !.processed = IncrementProcessed(@)]
    /\ callers' = [callers EXCEPT ![c].pc = "read"]
    /\ UNCHANGED <<milvus, docs, chunks, mongo, provider, nextId, last, bucket, uploads>>

\* current = int(await redis.hget(f"task:{task_id}", "processed"))
ReadProcessed(c) ==
    /\ callers[c].pc = "read"
    /\ callers' = [callers EXCEPT ![c].pc = "total", ![c].current = task.processed]
    /\ UNCHANGED <<milvus, docs, chunks, mongo, provider, nextId, last, bucket, uploads, task>>

\* total = int(await redis.hget(f"task:{task_id}", "total")); if current == total
ReadTotal(c) ==
    /\ callers[c].pc = "total"
    /\ callers' = [callers EXCEPT ![c].pc =
                      IF AllProcessed(callers[c].current, task.total)
                      THEN "status" ELSE "done"]
    /\ UNCHANGED <<milvus, docs, chunks, mongo, provider, nextId, last, bucket, uploads, task>>

\* await redis.hset(f"task:{task_id}", "status", "completed")
SetCompleted(c) ==
    /\ callers[c].pc = "status"
    /\ task' = [task EXCEPT !.status = "completed"]
    /\ callers' = [callers EXCEPT ![c].pc = "message"]
    /\ UNCHANGED <<milvus, docs, chunks, mongo, provider, nextId, last, bucket, uploads>>

\* await redis.hset(f"task:{task_id}", "message", "All files processed successfully")
SetMessage(c) ==
    /\ callers[c].pc = "message"
    /\ task' = [task EXCEPT !.message = "completed"]
    /\ callers' = [callers EXCEPT ![c].pc = "done"]
    /\ UNCHANGED <<milvus, docs, chunks, mongo, provider, nextId, last, bucket, uploads>>

\* The steps of coroutine c that end without an exception.
Proceeds(c) ==
    \/ Work(c)
    \/ Incr(c)
    \/ ReadProcessed(c)
    \/ ReadTotal(c)
    \/ SetCompleted(c)
    \/ SetMessage(c)

\* A task of `total` files in progress, one coroutine started for each.
InitTask ==
    /\ milvus = [name \in CollNames |-> NoCollection]
    /\ docs = {}
    /\ chunks = {}
    /\ mongo = "truthy"
    /\ provider = [forceMock |-> TRUE, loaded |-> TRUE, hidden |-> 768]
    /\ nextId = 1
    /\ last = NoCall
    /\ bucket = {}
    /\ uploads = {}
    /\ callers = [c \in Files |-> Coroutine("work", 0)]
    /\ task = [status |-> "processing", message |-> "", processed |-> 0,
               total |-> NumCallers]

NextTask ==
    \E c \in Files :
        \/ Proceeds(c)
        \/ Fails(c)
        \/ IncrFails(c)

SpecTask == InitTask /\ [][NextTask]_vars

\* The event loop resumes every coroutine whose awaited command has been
\* answered: no coroutine waits for ever.
SpecTaskFair ==
    /\ InitTask
    /\ [][NextTask]_vars
    /\ \A c \in Files : WF_vars(Proceeds(c) \/ Fails(c) \/ IncrFails(c))

\* A process_file call has raised, at any step.
SomeFileFailed == \E c \in Files : callers[c].pc = "failed"

\* The processing of a file has failed: its call raised in lines 59-105,
\* before the file was counted.
ProcessingFailed(c) == callers[c].pc = "failed" /\ callers[c].at = "work"

C37_AllSucceedCompletes ==
    <>[](SomeFileFailed \/ (task.status = "completed" /\ task.processed = task.total))

\* Every call has returned, none failed, and every call had read the full
\* count (all increments came before all reads), so each set the status.
C37_Witness ==
    /\ \A c \in Files : callers[c].pc = "done" /\ callers[c].current = task.total
    /\ task.status = "completed"
    /\ task.processed = task.total

====
